---- MODULE Spec2Model ----
(***************************************************************************)
(* A model of the SeeFast service: the response cache (services/cache.py), *)
(* the conversation memory (agent/memory.py), the endpoint registry        *)
(* (registry/endpoint_registry.py, adapters/swagger_parser.py) and the     *)
(* agent control loop (agent/core.py, agent/graph.py).                     *)
(*                                                                         *)
(* Python values are tagged records, so that values of different Python    *)
(* types can be compared.  Strings built by concatenation or by joining    *)
(* with ":" are the sequences of their parts.                              *)
(***************************************************************************)
EXTENDS Integers, Sequences, FiniteSets, TLC

VARIABLES
    cache_made,     \* cache.py: the singleton _cache is not None
    connected,      \* CacheService._connected (and _redis is not None)
    redis_up,       \* environment: the backing store answers requests
    store,          \* the backing store: key -> [text, ttl]
    memory_cache,   \* CacheService._memory_cache: key -> [value, expiry]
    clock,          \* environment: the time datetime.now() reads
    lastOp,         \* ghost: the last operation, its arguments and its outcome
    steps,          \* ghost: the number of operations performed so far
    outages,        \* ghost: the number of times the backing store went down
    steady,         \* ghost: the cache has worked in one mode since it was made
    log,            \* ghost: per session, the turns appended since its record was lost
    collection,     \* EndpointRegistry.collection: the index, [exists, entries]
    endpoints_cache, \* EndpointRegistry._endpoints_cache: id -> Endpoint
    parser,         \* EndpointRegistry._parser: [made, base_url]
    loads,          \* ghost: the load_swagger calls so far, [doc, ok]
    regOp,          \* ghost: the last registry operation and its outcome
    pc,             \* where the service is: "boot", "idle", a node of the graph, "returned", "raised"
    session,        \* process_query: session_id of the running invocation
    question,       \* process_query: message of the running invocation
    llm,            \* environment: the reasoning backend, [forever, rounds, script]
    state_messages, \* AgentState.messages
    outputs,        \* ToolNode: the tool messages of the running round, by call
    state_widgets,  \* AgentState.widgets
    state_final_response, \* AgentState.final_response
    result,         \* what process_query returned
    uuid,           \* environment: the number of identifiers drawn by uuid4
    trace,          \* ghost: the nodes the running invocation has executed
    failure,        \* ghost: the step of the running invocation that raised
    invocations     \* ghost: the number of invocations started

cacheVars == <<cache_made, connected, redis_up, store, memory_cache>>
ghostVars == <<lastOp, steps, outages, steady, log>>
regVars == <<collection, endpoints_cache, parser, loads, regOp>>
agentVars == <<pc, session, question, llm, state_messages, outputs, state_widgets,
               state_final_response, result, uuid, trace, failure, invocations>>
vars == <<cacheVars, clock, ghostVars, regVars, agentVars>>

----------------------------------------------------------------------------
(* Bounds of the exploration *)

MaxOps == 3         \* cache operations in a run of the cache on its own
MaxOutages == 1     \* times the backing store goes down
MaxTurns == 22      \* turns appended in a run
MaxMixTurns == 3    \* time until which sessions interleave and the store may fail
MaxLoads == 2       \* load_swagger calls in a run
MaxRounds == 2      \* tool rounds a scripted reasoning backend asks for
MaxInvocations == 2 \* process_query calls in a run
MaxCalls == 2       \* tool calls in a run of the tools on their own

----------------------------------------------------------------------------
(* Python / JSON values *)

\* A value under a local name, computed once: the body applied to the value.
With(value, Body(_)) == CHOOSE out \in {Body(v) : v \in {value}} : TRUE

JNull == [t |-> "null"]
JBool(b) == [t |-> "bool", b |-> b]
JNum(n) == [t |-> "num", n |-> n]
JStr(s) == [t |-> "str", s |-> s]
JList(xs) == [t |-> "list", items |-> xs]
JObj(ks, vs) == [t |-> "obj", keys |-> ks, vals |-> vs]

\* Python truth value of a value: `if value:`, `x or default`.
Truthy(v) ==
    CASE v.t = "null" -> FALSE
      [] v.t = "bool" -> v.b
      [] v.t = "num" -> v.n # 0
      [] v.t = "str" -> v.s # ""
      [] v.t = "list" -> v.items # <<>>
      [] v.t = "obj" -> v.keys # <<>>

\* The text json.dumps writes is the sequence of its tokens.
Punct(c) == [k |-> "punct", c |-> c]
Lit(w) == [k |-> "lit", w |-> w]
NumTok(n) == [k |-> "num", n |-> n]
StrTok(s) == [k |-> "str", s |-> s]

RECURSIVE Dumps(_), DumpItems(_, _), DumpMembers(_, _, _)
DumpItems(xs, i) ==
    IF i > Len(xs) THEN <<>>
    ELSE (IF i > 1 THEN <<Punct(",")>> ELSE <<>>) \o Dumps(xs[i]) \o DumpItems(xs, i + 1)

DumpMembers(ks, vs, i) ==
    IF i > Len(ks) THEN <<>>
    ELSE (IF i > 1 THEN <<Punct(",")>> ELSE <<>>)
         \o <<StrTok(ks[i]), Punct(":")>> \o Dumps(vs[i]) \o DumpMembers(ks, vs, i + 1)

Dumps(v) ==
    CASE v.t = "null" -> <<Lit("null")>>
      [] v.t = "bool" -> <<Lit(IF v.b THEN "true" ELSE "false")>>
      [] v.t = "num" -> <<NumTok(v.n)>>
      [] v.t = "str" -> <<StrTok(v.s)>>
      [] v.t = "list" -> <<Punct("[")>> \o DumpItems(v.items, 1) \o <<Punct("]")>>
      [] v.t = "obj" -> <<Punct("{")>> \o DumpMembers(v.keys, v.vals, 1) \o <<Punct("}")>>

\* json.loads: a recursive-descent parse of the token text.  ok = FALSE is
\* json.JSONDecodeError.
ParseFail == [ok |-> FALSE, val |-> JNull, next |-> 0]
IsPunct(toks, i, c) == i <= Len(toks) /\ toks[i].k = "punct" /\ toks[i].c = c

RECURSIVE ParseValue(_, _), ParseItems(_, _, _), ParseMembers(_, _, _, _)
ParseItems(toks, i, acc) ==
    With(ParseValue(toks, i), LAMBDA r :
    IF ~r.ok THEN ParseFail
    ELSE IF IsPunct(toks, r.next, ",") THEN ParseItems(toks, r.next + 1, Append(acc, r.val))
    ELSE IF IsPunct(toks, r.next, "]")
         THEN [ok |-> TRUE, val |-> JList(Append(acc, r.val)), next |-> r.next + 1]
    ELSE ParseFail)

ParseMembers(toks, i, ks, vs) ==
    IF ~(i <= Len(toks) /\ toks[i].k = "str" /\ IsPunct(toks, i + 1, ":")) THEN ParseFail
    ELSE With(ParseValue(toks, i + 2), LAMBDA r :
         IF ~r.ok THEN ParseFail
         ELSE IF IsPunct(toks, r.next, ",")
              THEN ParseMembers(toks, r.next + 1, Append(ks, toks[i].s), Append(vs, r.val))
         ELSE IF IsPunct(toks, r.next, "}")
              THEN [ok |-> TRUE,
                    val |-> JObj(Append(ks, toks[i].s), Append(vs, r.val)),
                    next |-> r.next + 1]
         ELSE ParseFail)

ParseValue(toks, i) ==
    IF i > Len(toks) THEN ParseFail
    ELSE LET tk == toks[i] IN
         CASE tk.k = "lit" ->
                [ok |-> tk.w \in {"null", "true", "false"},
                 val |-> IF tk.w = "null" THEN JNull ELSE JBool(tk.w = "true"),
                 next |-> i + 1]
           [] tk.k = "num" -> [ok |-> TRUE, val |-> JNum(tk.n), next |-> i + 1]
           [] tk.k = "str" -> [ok |-> TRUE, val |-> JStr(tk.s), next |-> i + 1]
           [] tk.k = "punct" ->
                IF tk.c = "[" THEN
                    IF IsPunct(toks, i + 1, "]")
                    THEN [ok |-> TRUE, val |-> JList(<<>>), next |-> i + 2]
                    ELSE ParseItems(toks, i + 1, <<>>)
                ELSE IF tk.c = "{" THEN
                    IF IsPunct(toks, i + 1, "}")
                    THEN [ok |-> TRUE, val |-> JObj(<<>>, <<>>), next |-> i + 2]
                    ELSE ParseMembers(toks, i + 1, <<>>, <<>>)
                ELSE ParseFail
           [] OTHER -> ParseFail

Loads(toks) ==
    With(ParseValue(toks, 1), LAMBDA r :
    IF r.ok /\ r.next = Len(toks) + 1 THEN [ok |-> TRUE, val |-> r.val]
    ELSE [ok |-> FALSE, val |-> JNull])

\* key in d, and d[key], for a dictionary value.
HasKey(obj, key) == obj.t = "obj" /\ \E i \in 1..Len(obj.keys) : obj.keys[i] = key
Item(obj, key) == obj.vals[CHOOSE i \in 1..Len(obj.keys) : obj.keys[i] = key]

----------------------------------------------------------------------------
(* Dictionaries: functions with a growing domain *)

Put(d, key, v) == [x \in (DOMAIN d) \cup {key} |-> IF x = key THEN v ELSE d[x]]
Drop(d, keys) == [x \in (DOMAIN d) \ keys |-> d[x]]
EmptyDict == [x \in {} |-> JNull]

----------------------------------------------------------------------------
(* services/cache.py *)

redis_ttl == 300

\* CacheService.make_key: "seefast:" followed by the parts joined with ":".
make_key(parts) == <<"seefast">> \o parts

\* The keys glob of the backing store, for patterns that end in "*".
GlobMatch(pattern, key) ==
    IF pattern # <<>> /\ pattern[Len(pattern)] = "*"
    THEN /\ Len(key) >= Len(pattern) - 1
         /\ \A i \in 1..(Len(pattern) - 1) : key[i] = pattern[i]
    ELSE key = pattern

\* One request to the backing store: it raises when the store is unreachable.
RedisGet(key) ==
    IF ~redis_up THEN [exc |-> TRUE, found |-> FALSE, text |-> <<>>]
    ELSE IF key \in DOMAIN store THEN [exc |-> FALSE, found |-> TRUE, text |-> store[key].text]
    ELSE [exc |-> FALSE, found |-> FALSE, text |-> <<>>]

\* CacheService.get: the value returned (None is JNull).
get_truthy(key) ==
    With(RedisGet(key), LAMBDA r :
    With(IF r.found THEN Loads(r.text) ELSE [ok |-> FALSE, val |-> JNull], LAMBDA parsed :
    IF connected /\ ~r.exc /\ r.found /\ r.text # <<>> /\ parsed.ok
    THEN IF Truthy(parsed.val) THEN parsed.val ELSE JNull
    ELSE IF key \in DOMAIN memory_cache THEN memory_cache[key].value
    ELSE JNull))

\* A get that would enforce the expiry of the records of the in-process map.
get_expiring(key) ==
    With(RedisGet(key), LAMBDA r :
    With(IF r.found THEN Loads(r.text) ELSE [ok |-> FALSE, val |-> JNull], LAMBDA parsed :
    IF connected /\ ~r.exc /\ r.found /\ r.text # <<>> /\ parsed.ok
    THEN parsed.val
    ELSE IF key \in DOMAIN memory_cache /\ memory_cache[key].expiry > clock
    THEN memory_cache[key].value
    ELSE JNull))

get(key) ==
    With(RedisGet(key), LAMBDA r :
    With(IF r.found THEN Loads(r.text) ELSE [ok |-> FALSE, val |-> JNull], LAMBDA parsed :
    IF connected /\ ~r.exc /\ r.found /\ r.text # <<>> /\ parsed.ok
    THEN parsed.val
    ELSE IF key \in DOMAIN memory_cache THEN memory_cache[key].value
    ELSE JNull))

\* CacheService.set: the state it leaves and what it returns.
set_raises(key, value, ttl) ==
    IF connected /\ redis_up
    THEN [store |-> Put(store, key, [text |-> Dumps(value),
                                     ttl |-> IF ttl # 0 THEN ttl ELSE redis_ttl]),
          memory_cache |-> memory_cache, ret |-> TRUE, exc |-> FALSE]
    ELSE IF connected
    THEN [store |-> store, memory_cache |-> memory_cache, ret |-> FALSE, exc |-> TRUE]
    ELSE [store |-> store,
          memory_cache |-> Put(memory_cache, key, [value |-> value, expiry |-> 0]),
          ret |-> TRUE, exc |-> FALSE]

\* A set that would replace the whole map by the one record.
set_alone(key, value, ttl) ==
    IF connected /\ redis_up
    THEN [store |-> Put(EmptyDict, key, [text |-> Dumps(value),
                                         ttl |-> IF ttl # 0 THEN ttl ELSE redis_ttl]),
          memory_cache |-> memory_cache, ret |-> TRUE, exc |-> FALSE]
    ELSE [store |-> store,
          memory_cache |-> Put(EmptyDict, key, [value |-> value, expiry |-> 0]),
          ret |-> TRUE, exc |-> FALSE]

\* A set that would write nothing.
set_nothing(key, value, ttl) ==
    [store |-> store, memory_cache |-> memory_cache, ret |-> TRUE, exc |-> FALSE]

set(key, value, ttl) ==
    IF connected /\ redis_up
    THEN [store |-> Put(store, key, [text |-> Dumps(value),
                                     ttl |-> IF ttl # 0 THEN ttl ELSE redis_ttl]),
          memory_cache |-> memory_cache, ret |-> TRUE, exc |-> FALSE]
    ELSE [store |-> store,
          memory_cache |-> Put(memory_cache, key, [value |-> value, expiry |-> 0]),
          ret |-> TRUE, exc |-> FALSE]

\* CacheService.delete
delete(key) ==
    [store |-> IF connected /\ redis_up THEN Drop(store, {key}) ELSE store,
     memory_cache |-> Drop(memory_cache, {key}),
     ret |-> TRUE, exc |-> FALSE]

\* CacheService.clear_pattern: only the backing store is searched.
clear_pattern(pattern) ==
    LET keys == IF connected /\ redis_up
                THEN {x \in DOMAIN store : GlobMatch(pattern, x)} ELSE {}
    IN [store |-> Drop(store, keys), memory_cache |-> memory_cache,
        ret |-> Cardinality(keys), exc |-> FALSE]

----------------------------------------------------------------------------
(* adapters/swagger_parser.py *)

\* A dictionary from its items, in insertion order.
Obj(items) ==
    JObj([i \in 1..Len(items) |-> items[i][1]], [i \in 1..Len(items) |-> items[i][2]])

\* d.get(key, default)
GetOr(obj, key, default) == IF HasKey(obj, key) THEN Item(obj, key) ELSE default

\* sep.join(texts)
RECURSIVE Join(_, _, _)
Join(texts, sep, i) ==
    IF i > Len(texts) THEN ""
    ELSE (IF i > 1 THEN sep ELSE "") \o texts[i] \o Join(texts, sep, i + 1)

HttpMethods == {"get", "post", "put", "delete", "patch"}

\* An id that would keep the method as the document writes it.
UpperNot(method) == method

\* str.upper on the method names.
Upper(method) ==
    CASE method = "get" -> "GET"
      [] method = "post" -> "POST"
      [] method = "put" -> "PUT"
      [] method = "delete" -> "DELETE"
      [] method = "patch" -> "PATCH"
      [] OTHER -> method

\* EndpointParameter(...) of one entry of an operation's parameters.
EndpointParameter(param) ==
    [name |-> GetOr(param, "name", JStr("")),
     location |-> GetOr(param, "in", JStr("query")),
     required |-> GetOr(param, "required", JBool(FALSE)),
     param_type |-> GetOr(param, "type", JStr("string")),
     description |-> GetOr(param, "description", JStr(""))]

\* Endpoint(...) of one (path, method) pair.
Endpoint(path, method, details) ==
    LET params == GetOr(details, "parameters", JList(<<>>)).items
        responses == GetOr(details, "responses", JObj(<<>>, <<>>))
    IN [id |-> Upper(method) \o "_" \o path,
        path |-> path,
        method |-> Upper(method),
        summary |-> GetOr(details, "summary", JStr("")),
        description |-> GetOr(details, "description", JStr("")),
        tags |-> GetOr(details, "tags", JList(<<>>)),
        parameters |-> [i \in 1..Len(params) |-> EndpointParameter(params[i])],
        response_schema |-> IF HasKey(responses, "200")
                            THEN GetOr(Item(responses, "200"), "schema", JObj(<<>>, <<>>))
                            ELSE JNull]

\* Endpoint.searchable_text
searchable_text(endpoint) ==
    endpoint.summary.s \o ". " \o endpoint.description.s
    \o ". Tags: " \o Join([i \in 1..Len(endpoint.tags.items) |-> endpoint.tags.items[i].s], ", ", 1)
    \o ". Parameters: "
    \o Join([i \in 1..Len(endpoint.parameters) |-> endpoint.parameters[i].name.s], ", ", 1)
    \o ". Path: " \o endpoint.path

\* SwaggerParser._extract_endpoints: the loops over paths.items() and
\* methods.items().
RECURSIVE ExtractMethods(_, _, _), ExtractPaths(_, _)
ExtractMethods(path, methods, j) ==
    IF j > Len(methods.keys) THEN <<>>
    ELSE (IF methods.keys[j] \in HttpMethods
          THEN <<Endpoint(path, methods.keys[j], methods.vals[j])>>
          ELSE <<>>)
         \o ExtractMethods(path, methods, j + 1)

ExtractPaths(paths, i) ==
    IF i > Len(paths.keys) THEN <<>>
    ELSE ExtractMethods(paths.keys[i], paths.vals[i], 1) \o ExtractPaths(paths, i + 1)

extract_endpoints(spec) == ExtractPaths(GetOr(spec, "paths", JObj(<<>>, <<>>)), 1)

\* SwaggerParser.load, after the fetch: base_url.
base_url_of(spec) ==
    GetOr(spec, "schemes", JList(<<JStr("https")>>)).items[1].s \o "://"
    \o GetOr(spec, "host", JStr("")).s \o GetOr(spec, "basePath", JStr("")).s

\* SwaggerParser.get_full_url
get_full_url(p, endpoint) == p.base_url \o endpoint.path

----------------------------------------------------------------------------
(* registry/endpoint_registry.py *)

\* The embedding backend: a text's vector, and the distance of two vectors.
Embedding(text) == Len(text)
Distance(a, b) == IF a >= b THEN a - b ELSE b - a

\* collection.add: ids the index already holds are skipped.
RECURSIVE AddEntries(_, _, _)
AddEntries(entries, endpoints, i) ==
    IF i > Len(endpoints) THEN entries
    ELSE LET e == endpoints[i]
             entry == [id |-> e.id, document |-> searchable_text(e),
                       metadata |-> [path |-> e.path, method |-> e.method,
                                     summary |-> e.summary, tags |-> Dumps(e.tags)]]
         IN AddEntries(IF \E n \in 1..Len(entries) : entries[n].id = e.id
                       THEN entries ELSE Append(entries, entry),
                       endpoints, i + 1)

\* The loop of load_swagger that fills _endpoints_cache.
RECURSIVE CacheEndpoints(_, _, _)
CacheEndpoints(cache, endpoints, i) ==
    IF i > Len(endpoints) THEN cache
    ELSE CacheEndpoints(Put(cache, endpoints[i].id, endpoints[i]), endpoints, i + 1)

\* EndpointRegistry.load_swagger(url): `fetched` is what the fetch of the url
\* gives (ok = FALSE: the request or the parse of its body raised); delete_ok,
\* create_ok and add_ok tell whether delete_collection,
\* get_or_create_collection and collection.add raise.
load_swagger(fetched, delete_ok, create_ok, add_ok) ==
    IF ~fetched.ok
    THEN [collection |-> collection, endpoints_cache |-> endpoints_cache,
          parser |-> [made |-> TRUE, base_url |-> ""], exc |-> TRUE, ret |-> 0]
    ELSE
    LET endpoints == extract_endpoints(fetched.spec)
        deleted == delete_ok /\ collection.exists
        cleared == IF ~deleted THEN collection
                   ELSE IF create_ok THEN [exists |-> TRUE, entries |-> <<>>]
                   ELSE [exists |-> FALSE, entries |-> <<>>]
        added == endpoints # <<>> /\ cleared.exists /\ add_ok
    IN [collection |-> IF added
                       THEN [cleared EXCEPT !.entries = AddEntries(@, endpoints, 1)]
                       ELSE cleared,
        endpoints_cache |-> CacheEndpoints(endpoints_cache, endpoints, 1),
        parser |-> [made |-> TRUE, base_url |-> base_url_of(fetched.spec)],
        exc |-> endpoints # <<>> /\ ~added,
        ret |-> Len(endpoints)]

\* collection.query: the n_results entries nearest to the query, nearest
\* first, entries at the same distance in the order of the index.
RECURSIVE Nearest(_, _, _)
Nearest(entries, query, n) ==
    IF n = 0 \/ entries = <<>> THEN <<>>
    ELSE
    With([i \in 1..Len(entries) |->
             Distance(Embedding(query), Embedding(entries[i].document))], LAMBDA d :
    With(CHOOSE i \in 1..Len(entries) :
            \A j \in 1..Len(entries) : d[i] < d[j] \/ (d[i] = d[j] /\ i <= j), LAMBDA best :
         <<[entry |-> entries[best], distance |-> d[best]]>>
         \o Nearest([j \in 1..(Len(entries) - 1) |->
                        IF j < best THEN entries[j] ELSE entries[j + 1]], query, n - 1)))

\* EndpointRegistry.search
search(query, top_k) ==
    IF ~collection.exists THEN [exc |-> TRUE, found |-> <<>>]
    ELSE With(Nearest(collection.entries, query, top_k), LAMBDA results :
         [exc |-> FALSE,
          found |-> [i \in 1..Len(results) |->
                        [id |-> results[i].entry.id,
                         path |-> results[i].entry.metadata.path,
                         method |-> results[i].entry.metadata.method,
                         summary |-> results[i].entry.metadata.summary,
                         relevance_score |-> 1 - results[i].distance]]])

\* EndpointRegistry.get_details: found = FALSE is None.
get_details(endpoint_id) ==
    IF endpoint_id \notin DOMAIN endpoints_cache THEN [found |-> FALSE]
    ELSE With(endpoints_cache[endpoint_id], LAMBDA endpoint :
         [found |-> TRUE,
          id |-> endpoint.id,
          path |-> endpoint.path,
          method |-> endpoint.method,
          summary |-> endpoint.summary,
          description |-> endpoint.description,
          tags |-> endpoint.tags,
          full_url |-> IF parser.made THEN get_full_url(parser, endpoint) ELSE "",
          parameters |-> [i \in 1..Len(endpoint.parameters) |->
                            [name |-> endpoint.parameters[i].name,
                             in |-> endpoint.parameters[i].location,
                             required |-> endpoint.parameters[i].required,
                             type |-> endpoint.parameters[i].param_type,
                             description |-> endpoint.parameters[i].description]]])

\* EndpointRegistry.get_endpoint_count
get_endpoint_count == Len(collection.entries)

NoRegOp == [op |-> "none"]

\* A service that has not started: no invocation has run.
NoResult == [message |-> "", widgets |-> JList(<<>>)]
NoBackend == [forever |-> FALSE, rounds |-> 0, script |-> 0]

AgentIdle ==
    /\ pc = "boot" /\ session = "" /\ question = "" /\ llm = NoBackend
    /\ state_messages = <<>> /\ outputs = <<>> /\ state_widgets = JList(<<>>)
    /\ state_final_response = "" /\ result = NoResult /\ uuid = 0
    /\ trace = <<>> /\ failure = "" /\ invocations = 0

\* A registry nothing has been loaded into: EndpointRegistry.__init__ on an
\* empty index directory.
RegistryIdle ==
    /\ collection = [exists |-> TRUE, entries |-> <<>>]
    /\ endpoints_cache = EmptyDict
    /\ parser = [made |-> FALSE, base_url |-> ""]
    /\ loads = <<>>
    /\ regOp = NoRegOp

----------------------------------------------------------------------------
(* The cache on its own: its operations, store outages and expiry *)


Sessions == {"A", "B"}

\* ConversationMemory.__init__: the key of a session's history record.
history_key(session_id) == <<"session", session_id, "history">>

K_API == make_key(<<"api", "GET_/pet", "h0">>)
K_SESSION == history_key("A")
CacheKeys == {K_API, K_SESSION}
CachePatterns == {<<"seefast", "*">>, <<"session", "*">>}
CacheValues ==
    {JNull, JBool(FALSE), JNum(0), JStr(""), JList(<<>>), JObj(<<>>, <<>>),
     JObj(<<"a", "b">>, <<JNum(1), JList(<<JStr("x"), JNull>>)>>)}
CacheTtls == {0, 60}

\* How an operation reaches its data: the in-process map for the lifetime of
\* the process, the backing store, or the map because the store request failed.
Mode == IF ~connected THEN "fallback" ELSE IF redis_up THEN "store" ELSE "outage"

NoOp == [op |-> "none", key |-> <<>>, val |-> JNull, res |-> JNull, count |-> 0,
         exc |-> FALSE, mode |-> "none", after_set |-> FALSE, set_val |-> JNull,
         set_mode |-> "none", before |-> EmptyDict]

\* What get returns for every key of the model.
View == [x \in CacheKeys |-> get(x)]

CacheInit ==
    /\ cache_made = FALSE
    /\ connected = FALSE
    /\ redis_up \in BOOLEAN
    /\ store = EmptyDict
    /\ memory_cache = EmptyDict
    /\ clock = 0
    /\ lastOp = NoOp
    /\ steps = 0
    /\ outages = 0
    /\ steady = TRUE
    /\ log = [sid \in Sessions |-> <<>>]
    /\ RegistryIdle
    /\ AgentIdle

\* get_cache / CacheService.__init__ / _connect
get_cache ==
    /\ ~cache_made
    /\ cache_made' = TRUE
    /\ connected' = redis_up
    /\ lastOp' = [NoOp EXCEPT !.op = "construct", !.exc = FALSE,
                              !.mode = IF redis_up THEN "store" ELSE "fallback"]
    /\ UNCHANGED <<redis_up, store, memory_cache, clock, steps, outages, steady, log, regVars, agentVars>>

Get(key) ==
    /\ cache_made /\ steps < MaxOps
    /\ lastOp' = [NoOp EXCEPT !.op = "get", !.key = key, !.res = get(key), !.mode = Mode,
                              !.after_set = (lastOp.op = "set" /\ lastOp.key = key),
                              !.set_val = lastOp.val, !.set_mode = lastOp.mode]
    /\ steps' = steps + 1
    /\ UNCHANGED <<cacheVars, clock, outages, steady, log, regVars, agentVars>>

Set(key, value, ttl) ==
    /\ cache_made /\ steps < MaxOps
    /\ LET r == set(key, value, ttl) IN
        /\ store' = r.store
        /\ memory_cache' = r.memory_cache
        /\ lastOp' = [NoOp EXCEPT !.op = "set", !.key = key, !.val = value,
                                  !.exc = r.exc, !.mode = Mode]
    /\ steps' = steps + 1
    /\ UNCHANGED <<cache_made, connected, redis_up, clock, outages, steady, log, regVars, agentVars>>

Delete(key) ==
    /\ cache_made /\ steps < MaxOps
    /\ LET r == delete(key) IN
        /\ store' = r.store
        /\ memory_cache' = r.memory_cache
        /\ lastOp' = [NoOp EXCEPT !.op = "delete", !.key = key, !.exc = r.exc, !.mode = Mode]
    /\ steps' = steps + 1
    /\ UNCHANGED <<cache_made, connected, redis_up, clock, outages, steady, log, regVars, agentVars>>

ClearPattern(pattern) ==
    /\ cache_made /\ steps < MaxOps
    /\ LET r == clear_pattern(pattern) IN
        /\ store' = r.store
        /\ memory_cache' = r.memory_cache
        /\ lastOp' = [NoOp EXCEPT !.op = "clear_pattern", !.key = pattern, !.count = r.ret,
                                  !.exc = r.exc, !.mode = Mode, !.before = View]
    /\ steps' = steps + 1
    /\ UNCHANGED <<cache_made, connected, redis_up, clock, outages, steady, log, regVars, agentVars>>

\* The backing store drops a record whose TTL has elapsed.
Expire(key) ==
    /\ key \in DOMAIN store
    /\ store' = Drop(store, {key})
    /\ lastOp' = [NoOp EXCEPT !.op = "expire", !.key = key]
    /\ log' = [sid \in Sessions |-> IF key = history_key(sid) THEN <<>> ELSE log[sid]]
    /\ UNCHANGED <<cache_made, connected, redis_up, memory_cache, clock, steps, outages, steady, regVars, agentVars>>

\* The backing store becomes unreachable, or reachable again.
StoreDown ==
    /\ redis_up /\ outages < MaxOutages /\ clock < MaxMixTurns
    /\ redis_up' = FALSE
    /\ outages' = outages + 1
    /\ steady' = (steady /\ ~connected)
    /\ lastOp' = [NoOp EXCEPT !.op = "store_down"]
    /\ UNCHANGED <<cache_made, connected, store, memory_cache, clock, steps, log, regVars, agentVars>>

StoreUp ==
    /\ ~redis_up /\ clock < MaxMixTurns
    /\ redis_up' = TRUE
    /\ steady' = (steady /\ ~connected)
    /\ lastOp' = [NoOp EXCEPT !.op = "store_up"]
    /\ UNCHANGED <<cache_made, connected, store, memory_cache, clock, steps, outages, log, regVars, agentVars>>

CacheNext ==
    \/ get_cache
    \/ \E key \in CacheKeys : Get(key)
    \/ \E key \in CacheKeys, value \in CacheValues, ttl \in CacheTtls : Set(key, value, ttl)
    \/ \E key \in CacheKeys : Delete(key)
    \/ \E pattern \in CachePatterns : ClearPattern(pattern)
    \/ \E key \in CacheKeys : Expire(key)
    \/ StoreDown
    \/ StoreUp

SpecCache == CacheInit /\ [][CacheNext]_vars

----------------------------------------------------------------------------
(* Claims about the cache *)

\* C8: set(key, v) followed immediately by get(key) returns a value equal to
\* v, for every JSON value v (falsy ones included), both when the backing
\* store is connected and answers and in fallback mode.
C8_RoundTrip ==
    (/\ lastOp.op = "get" /\ lastOp.after_set
     /\ lastOp.mode = lastOp.set_mode /\ lastOp.mode \in {"store", "fallback"})
    => lastOp.res = lastOp.set_val

C8_Witness ==
    /\ lastOp.op = "get" /\ lastOp.after_set
    /\ lastOp.mode = "store" /\ lastOp.set_mode = "store"
    /\ lastOp.set_val = JNum(0) /\ lastOp.res = JNum(0)

\* C9: with the backing store unreachable (at startup, or when the requests
\* of the operations fail) the construction and every get, set, delete and
\* clear_pattern complete without raising, and set followed by get of the
\* same key returns the value set, from the in-process map.
C9_Degradation ==
    /\ lastOp.exc = FALSE
    /\ (/\ lastOp.op = "get" /\ lastOp.after_set
        /\ lastOp.mode \in {"fallback", "outage"}
        /\ lastOp.set_mode \in {"fallback", "outage"})
       => lastOp.res = lastOp.set_val

C9_Witness ==
    /\ lastOp.op = "get" /\ lastOp.after_set
    /\ lastOp.mode = "outage" /\ lastOp.set_mode = "outage"
    /\ lastOp.res = lastOp.set_val /\ lastOp.res = JList(<<>>)
    /\ K_SESSION \in DOMAIN store

\* C10: in degraded mode clear_pattern works on the in-process map: after
\* it, get returns nothing for every key that matches the pattern, and what
\* get returns for the other keys is unchanged.
C10_ClearMatchingDegraded ==
    (lastOp.op = "clear_pattern" /\ lastOp.mode = "fallback")
    => \A x \in CacheKeys :
          IF GlobMatch(lastOp.key, x) THEN get(x) = JNull
          ELSE get(x) = lastOp.before[x]

\* Time passes over a record of the in-process map in fallback mode: the
\* process holds no timer and no expiry for it (the map stores expiry 0, get
\* ignores it).
Elapse(key) ==
    /\ cache_made /\ ~connected
    /\ key \in DOMAIN memory_cache
    /\ lastOp.op # "elapse"
    /\ lastOp' = [NoOp EXCEPT !.op = "elapse", !.key = key]
    /\ UNCHANGED <<cacheVars, clock, steps, outages, steady, log, regVars, agentVars>>

TtlNext ==
    \/ CacheNext
    \/ \E key \in CacheKeys : Elapse(key)

SpecTtl == CacheInit /\ [][TtlNext]_vars

----------------------------------------------------------------------------
(* agent/memory.py *)

HistoryLimit == 20
HistoryTtl == 3600

\* s[:n]
OldestN(s, n) == IF Len(s) <= n THEN s ELSE SubSeq(s, 1, n)

\* s[-n:]
LastN(s, n) == IF Len(s) <= n THEN s ELSE SubSeq(s, Len(s) - n + 1, Len(s))

\* ConversationMemory.get_history: `cache.get(key) or []`.
get_history_shared(session_id) ==
    With(get(history_key("A")), LAMBDA v : IF Truthy(v) THEN v ELSE JList(<<>>))

get_history(session_id) ==
    With(get(history_key(session_id)), LAMBDA v : IF Truthy(v) THEN v ELSE JList(<<>>))

\* A turn that would keep the texts and drop the widgets.
TurnTextOnly(user_message, assistant_message, widgets) ==
    JObj(<<"user", "assistant", "widgets", "timestamp">>,
         <<JStr(user_message), JStr(assistant_message), JList(<<>>),
           JStr(ToString(clock))>>)

\* The turn add_turn builds; the timestamp is the text of the clock.
Turn(user_message, assistant_message, widgets) ==
    JObj(<<"user", "assistant", "widgets", "timestamp">>,
         <<JStr(user_message), JStr(assistant_message),
           IF Truthy(widgets) THEN widgets ELSE JList(<<>>),
           JStr(ToString(clock))>>)

\* ConversationMemory.add_turn: the state it leaves.
add_turn_untruncated(session_id, user_message, assistant_message, widgets) ==
    With(get_history(session_id), LAMBDA history :
    IF history.t # "list"
    THEN [store |-> store, memory_cache |-> memory_cache, ret |-> FALSE, exc |-> TRUE]
    ELSE set(history_key(session_id),
             JList(Append(history.items, Turn(user_message, assistant_message, widgets))),
             HistoryTtl))

add_turn(session_id, user_message, assistant_message, widgets) ==
    With(get_history(session_id), LAMBDA history :
    IF history.t # "list"
    THEN [store |-> store, memory_cache |-> memory_cache, ret |-> FALSE, exc |-> TRUE]
    ELSE set(history_key(session_id),
             JList(LastN(Append(history.items,
                                Turn(user_message, assistant_message, widgets)),
                         HistoryLimit)),
             HistoryTtl))

\* ConversationMemory.get_context_messages: exc is the KeyError of a turn
\* that lacks "user" or "assistant".
RECURSIVE ContextOf(_, _)
ContextOf(turns, i) ==
    IF i > Len(turns) THEN <<>>
    ELSE <<[role |-> "user", content |-> Item(turns[i], "user")],
           [role |-> "assistant", content |-> Item(turns[i], "assistant")]>>
         \o ContextOf(turns, i + 1)

get_context_messages(session_id, limit) ==
    With(get_history(session_id), LAMBDA history :
    IF history.t # "list" THEN [exc |-> TRUE, messages |-> <<>>]
    ELSE
    With(LastN(history.items, limit), LAMBDA turns :
    IF \E i \in 1..Len(turns) :
          ~(HasKey(turns[i], "user") /\ HasKey(turns[i], "assistant"))
    THEN [exc |-> TRUE, messages |-> <<>>]
    ELSE [exc |-> FALSE, messages |-> ContextOf(turns, 1)]))

\* ConversationMemory.clear
clear(session_id) == delete(history_key(session_id))

----------------------------------------------------------------------------
(* The conversation memory of two sessions over the cache *)

\* The text a session's user submits.
UserText(session_id) == "question of " \o session_id
AssistantText(session_id) == "answer to " \o session_id

Histories == [sid \in Sessions |-> get_history(sid)]

MemoryInit == CacheInit

AddTurn(session_id) ==
    /\ cache_made /\ clock < MaxTurns
    /\ LET r == add_turn(session_id, UserText(session_id), AssistantText(session_id), JNull) IN
        /\ store' = r.store
        /\ memory_cache' = r.memory_cache
        /\ lastOp' = [NoOp EXCEPT !.op = "add_turn", !.key = history_key(session_id),
                                  !.exc = r.exc, !.mode = Mode, !.before = Histories]
    /\ clock' = clock + 1
    /\ log' = [log EXCEPT ![session_id] =
                  Append(@, Turn(UserText(session_id), AssistantText(session_id), JNull))]
    /\ UNCHANGED <<cache_made, connected, redis_up, steps, outages, steady, regVars, agentVars>>

Clear(session_id) ==
    /\ cache_made /\ log[session_id] # <<>>
    /\ LET r == clear(session_id) IN
        /\ store' = r.store
        /\ memory_cache' = r.memory_cache
        /\ lastOp' = [NoOp EXCEPT !.op = "clear", !.key = history_key(session_id),
                                  !.exc = r.exc, !.mode = Mode, !.before = Histories]
    /\ log' = [log EXCEPT ![session_id] = <<>>]
    /\ UNCHANGED <<cache_made, connected, redis_up, clock, steps, outages, steady, regVars, agentVars>>

MemoryNext ==
    \/ get_cache
    \/ \E sid \in Sessions : clock < MaxMixTurns /\ AddTurn(sid)
    \/ \E sid \in Sessions : Clear(sid)
    \/ \E sid \in Sessions : Expire(history_key(sid))
    \/ StoreDown
    \/ StoreUp

SpecMemory == MemoryInit /\ [][MemoryNext]_vars

\* One session appending for long enough to fill its window.
WindowNext ==
    \/ get_cache
    \/ AddTurn("A")
    \/ Clear("A")
    \/ Expire(history_key("A"))
    \/ StoreDown
    \/ StoreUp

SpecWindow == MemoryInit /\ [][WindowNext]_vars

----------------------------------------------------------------------------
(* Claims about the conversation memory *)

C7_SessionIsolation ==
    \A sid \in Sessions :
        /\ \A i \in 1..Len(get_history(sid).items) :
              Item(get_history(sid).items[i], "user") = JStr(UserText(sid))
        /\ (lastOp.op \in {"add_turn", "clear"} /\ lastOp.key # history_key(sid))
              => get_history(sid) = lastOp.before[sid]
        /\ \A i \in 1..Len(get_context_messages(sid, 3).messages) :
              get_context_messages(sid, 3).messages[i].content
                 \in {JStr(UserText(sid)), JStr(AssistantText(sid))}

C7_Witness ==
    /\ lastOp.op = "add_turn" /\ lastOp.key = history_key("A")
    /\ Len(get_history("A").items) >= 1
    /\ Len(get_history("B").items) >= 1
    /\ Len(get_context_messages("B", 3).messages) >= 2

----------------------------------------------------------------------------
(* The registry: loads that may fail at each step, searches and lookups *)

Doc1 ==
    Obj(<<<<"host", JStr("a.io")>>, <<"basePath", JStr("/v2")>>,
          <<"schemes", JList(<<JStr("https"), JStr("http")>>)>>,
          <<"paths", Obj(<<
              <<"/pet", Obj(<<
                  <<"post", Obj(<<<<"summary", JStr("Add a pet")>>,
                                  <<"tags", JList(<<JStr("pet")>>)>>,
                                  <<"parameters", JList(<<
                                      Obj(<<<<"name", JStr("body")>>, <<"in", JStr("body")>>,
                                            <<"required", JBool(TRUE)>>>>)>>)>>>>)>>,
                  <<"get", Obj(<<<<"summary", JStr("List pets")>>,
                                 <<"responses", Obj(<<<<"200", Obj(<<
                                     <<"schema", Obj(<<<<"type", JStr("array")>>>>)>>>>)>>>>)>>>>)>>>>)>>,
              <<"/store/order", Obj(<<
                  <<"get", Obj(<<<<"summary", JStr("Orders")>>,
                                 <<"description", JStr("Store orders")>>>>)>>>>)>>,
              <<"/pet/{petId}", Obj(<<
                  <<"get", Obj(<<<<"summary", JStr("Find pet by ID")>>,
                                 <<"parameters", JList(<<
                                     Obj(<<<<"name", JStr("petId")>>, <<"in", JStr("path")>>,
                                           <<"required", JBool(TRUE)>>,
                                           <<"type", JStr("integer")>>>>)>>)>>>>)>>>>)>>>>)>>>>)

Doc2 ==
    Obj(<<<<"host", JStr("b.io")>>,
          <<"paths", Obj(<<
              <<"/pet", Obj(<<
                  <<"get", Obj(<<<<"summary", JStr("Find pets by status")>>,
                                 <<"parameters", JList(<<
                                     Obj(<<<<"name", JStr("status")>>>>)>>)>>>>)>>>>)>>,
              <<"/user/{name}", Obj(<<
                  <<"parameters", JList(<<Obj(<<<<"name", JStr("name")>>, <<"in", JStr("path")>>>>)>>)>>,
                  <<"delete", Obj(<<<<"summary", JStr("Delete user")>>>>)>>>>)>>>>)>>>>)

Doc3 == Obj(<<<<"swagger", JStr("2.0")>>>>)

Documents == <<Doc1, Doc2, Doc3>>
Queries == {"pets", "orders of the store"}
TopKs == {1, 5}

IdsOf(d) == {extract_endpoints(Documents[d])[i].id : i \in 1..Len(extract_endpoints(Documents[d]))}
AllIds == UNION {IdsOf(d) : d \in 1..Len(Documents)} \cup {"GET_/nothing"}

\* What the registry answers: every search and every lookup of the model.
RegistryView ==
    [search |-> [qk \in Queries \X TopKs |-> search(qk[1], qk[2])],
     details |-> [id \in AllIds |-> get_details(id)]]

\* The ids a search returns.
FoundIds(query, top_k) ==
    {search(query, top_k).found[i].id : i \in 1..Len(search(query, top_k).found)}

\* EndpointRegistry.__init__: the index directory is persistent, so the index
\* may hold the entries of an earlier process.
RegistryInit ==
    /\ collection \in {[exists |-> TRUE, entries |-> <<>>],
                       [exists |-> TRUE,
                        entries |-> AddEntries(<<>>, extract_endpoints(Doc1), 1)]}
    /\ endpoints_cache = EmptyDict
    /\ parser = [made |-> FALSE, base_url |-> ""]
    /\ loads = <<>>
    /\ regOp = NoRegOp
    /\ cache_made = FALSE /\ connected = FALSE /\ redis_up = TRUE
    /\ store = EmptyDict /\ memory_cache = EmptyDict
    /\ clock = 0 /\ lastOp = NoOp /\ steps = 0 /\ outages = 0 /\ steady = TRUE
    /\ log = [sid \in Sessions |-> <<>>]
    /\ AgentIdle

LoadSwagger(d, fetch_ok, delete_ok, create_ok, add_ok) ==
    /\ Len(loads) < MaxLoads
    /\ LET fetched == IF fetch_ok THEN [ok |-> TRUE, spec |-> Documents[d]]
                      ELSE [ok |-> FALSE, spec |-> JNull]
           r == load_swagger(fetched, delete_ok, create_ok, add_ok)
       IN /\ collection' = r.collection
          /\ endpoints_cache' = r.endpoints_cache
          /\ parser' = r.parser
          /\ loads' = Append(loads, [doc |-> d, ok |-> ~r.exc, before |-> RegistryView])
          /\ regOp' = [op |-> "load_swagger", exc |-> r.exc, ret |-> r.ret]
    /\ UNCHANGED <<agentVars, cacheVars, clock, ghostVars>>

Search(query, top_k) ==
    /\ regOp' = [op |-> "search", query |-> query, top_k |-> top_k, out |-> search(query, top_k)]
    /\ UNCHANGED <<agentVars, cacheVars, clock, ghostVars, collection, endpoints_cache, parser, loads>>

GetDetails(endpoint_id) ==
    /\ regOp' = [op |-> "get_details", id |-> endpoint_id, out |-> get_details(endpoint_id)]
    /\ UNCHANGED <<agentVars, cacheVars, clock, ghostVars, collection, endpoints_cache, parser, loads>>

RegistryNext ==
    \/ \E d \in 1..Len(Documents), fetch_ok, delete_ok, create_ok, add_ok \in BOOLEAN :
          LoadSwagger(d, fetch_ok, delete_ok, create_ok, add_ok)
    \/ \E query \in Queries, top_k \in TopKs : Search(query, top_k)
    \/ \E endpoint_id \in AllIds : GetDetails(endpoint_id)

SpecRegistry == RegistryInit /\ [][RegistryNext]_vars

----------------------------------------------------------------------------
(* Claims about the registry *)

LastLoad == loads[Len(loads)]

\* C1: after a successful load of one document followed by a successful load
\* of a different document, no search returns an id that only the first
\* document holds, and get_details of such an id is not-found.
C1_ReloadAtomicity ==
    (/\ Len(loads) >= 2
     /\ loads[Len(loads) - 1].ok /\ LastLoad.ok
     /\ loads[Len(loads) - 1].doc # LastLoad.doc)
    => \A id \in IdsOf(loads[Len(loads) - 1].doc) \ IdsOf(LastLoad.doc) :
          /\ ~get_details(id).found
          /\ \A query \in Queries, top_k \in TopKs : id \notin FoundIds(query, top_k)

\* C2: a load that fails leaves the registry as it was: every search and
\* every get_details (the full URL included) answers what it answered before
\* the load was attempted.
C2_FailedLoadChangesNothing ==
    (loads # <<>> /\ ~LastLoad.ok) => RegistryView = LastLoad.before

----------------------------------------------------------------------------
(* Python strings *)

Min(a, b) == IF a <= b THEN a ELSE b

\* A slice that would keep the whole text.
SliceAll(s, n) == s

\* s[:n]
Slice(s, n) == SubSeq(s, 1, Min(n, Len(s)))

\* sub in s
RECURSIVE FindFrom(_, _, _)
FindFrom(s, sub, i) ==
    IF i + Len(sub) - 1 > Len(s) THEN 0
    ELSE IF SubSeq(s, i, i + Len(sub) - 1) = sub THEN i
    ELSE FindFrom(s, sub, i + 1)

Contains(s, sub) == sub = "" \/ FindFrom(s, sub, 1) # 0

\* s.replace(old, new), for a non-empty old.
RECURSIVE Replace(_, _, _)
Replace(s, old, new) ==
    LET i == FindFrom(s, old, 1) IN
    IF i = 0 THEN s
    ELSE SubSeq(s, 1, i - 1) \o new \o Replace(SubSeq(s, i + Len(old), Len(s)), old, new)

\* repr(v) and str(v) of a value.
RECURSIVE Repr(_), ReprItems(_, _), ReprMembers(_, _, _)
ReprItems(xs, i) ==
    IF i > Len(xs) THEN ""
    ELSE (IF i > 1 THEN ", " ELSE "") \o Repr(xs[i]) \o ReprItems(xs, i + 1)

ReprMembers(ks, vs, i) ==
    IF i > Len(ks) THEN ""
    ELSE (IF i > 1 THEN ", " ELSE "") \o "'" \o ks[i] \o "': " \o Repr(vs[i])
         \o ReprMembers(ks, vs, i + 1)

Repr(v) ==
    CASE v.t = "null" -> "None"
      [] v.t = "bool" -> IF v.b THEN "True" ELSE "False"
      [] v.t = "num" -> ToString(v.n)
      [] v.t = "str" -> "'" \o v.s \o "'"
      [] v.t = "list" -> "[" \o ReprItems(v.items, 1) \o "]"
      [] v.t = "obj" -> "{" \o ReprMembers(v.keys, v.vals, 1) \o "}"

Str(v) == IF v.t = "str" THEN v.s ELSE Repr(v)

\* isinstance(v, (int, float)): a bool is an int.
IsNumber(v) == v.t \in {"num", "bool"}

\* The text of json.dumps as one string (separators ", " and ": ").
RECURSIVE TokText(_, _)
TokText(toks, i) ==
    IF i > Len(toks) THEN ""
    ELSE LET tk == toks[i] IN
         (CASE tk.k = "punct" -> (IF tk.c = "," THEN ", " ELSE IF tk.c = ":" THEN ": " ELSE tk.c)
            [] tk.k = "lit" -> tk.w
            [] tk.k = "num" -> ToString(tk.n)
            [] tk.k = "str" -> "\"" \o tk.s \o "\""
            [] OTHER -> tk.s)
         \o TokText(toks, i + 1)

\* A text that is not JSON, as the content of a message.
RawText(s) == <<[k |-> "raw", s |-> s]>>

\* str.title(): the first letter of every run of letters in upper case, the
\* rest of the run in lower case.
LowerLetters == "abcdefghijklmnopqrstuvwxyz"
UpperLetters == "ABCDEFGHIJKLMNOPQRSTUVWXYZ"

LetterIndex(c) ==
    IF FindFrom(LowerLetters, c, 1) # 0 THEN FindFrom(LowerLetters, c, 1)
    ELSE FindFrom(UpperLetters, c, 1)

RECURSIVE TitleFrom(_, _, _)
TitleFrom(s, i, inWord) ==
    IF i > Len(s) THEN ""
    ELSE LET c == SubSeq(s, i, i)
             n == LetterIndex(c)
         IN (IF n = 0 THEN c
             ELSE IF inWord THEN SubSeq(LowerLetters, n, n)
             ELSE SubSeq(UpperLetters, n, n))
            \o TitleFrom(s, i + 1, n # 0)

Title(s) == TitleFrom(s, 1, FALSE)

----------------------------------------------------------------------------
(* agent/tools.py *)

\* What a tool gives: exc = TRUE when it raises; store and memory_cache are
\* the cache it leaves; request is the outbound request it made, if any.
NoRequest == [made |-> FALSE, method |-> "", url |-> "", params |-> JNull]

ToolReturn(value) ==
    [exc |-> FALSE, value |-> value, store |-> store, memory_cache |-> memory_cache,
     request |-> NoRequest]

ToolRaise == [ToolReturn(JNull) EXCEPT !.exc = TRUE]

ErrorObj(text) == Obj(<<<<"error", JStr(text)>>>>)

Strings(texts) == JList([i \in 1..Len(texts) |-> JStr(texts[i])])

\* search_endpoints
search_endpoints(query, top_k) ==
    With(search(query, top_k), LAMBDA r :
    IF r.exc THEN ToolRaise
    ELSE ToolReturn(Obj(<<
            <<"query", JStr(query)>>,
            <<"count", JNum(Len(r.found))>>,
            <<"endpoints", JList([i \in 1..Len(r.found) |->
                Obj(<<<<"id", JStr(r.found[i].id)>>,
                      <<"path", JStr(r.found[i].path)>>,
                      <<"method", JStr(r.found[i].method)>>,
                      <<"summary", r.found[i].summary>>,
                      <<"relevance_score", JNum(r.found[i].relevance_score)>>>>)])>>,
            <<"hint", JStr("Use get_endpoint_schema to see full details, then call_api to make requests")>>>>)))

\* The dictionary get_details returns, as a value.
DetailsObj(d) ==
    Obj(<<<<"id", JStr(d.id)>>, <<"path", JStr(d.path)>>, <<"method", JStr(d.method)>>,
          <<"summary", d.summary>>, <<"description", d.description>>, <<"tags", d.tags>>,
          <<"full_url", JStr(d.full_url)>>,
          <<"parameters", JList([i \in 1..Len(d.parameters) |->
              Obj(<<<<"name", d.parameters[i].name>>, <<"in", d.parameters[i].in>>,
                    <<"required", d.parameters[i].required>>,
                    <<"type", d.parameters[i].type>>,
                    <<"description", d.parameters[i].description>>>>)])>>>>)

\* get_endpoint_schema
get_endpoint_schema(endpoint_id) ==
    With(get_details(endpoint_id), LAMBDA details :
    IF ~details.found THEN ToolReturn(ErrorObj("Endpoint " \o endpoint_id \o " not found"))
    ELSE ToolReturn(DetailsObj(details)))

\* {**a, **b}
RECURSIVE Merge(_, _, _)
Merge(a, b, i) ==
    IF i > Len(b.keys) THEN a
    ELSE Merge(IF HasKey(a, b.keys[i])
               THEN JObj(a.keys, [n \in 1..Len(a.keys) |->
                                     IF a.keys[n] = b.keys[i] THEN b.vals[i] ELSE a.vals[n]])
               ELSE JObj(Append(a.keys, b.keys[i]), Append(a.vals, b.vals[i])),
               b, i + 1)

\* The parameter names of the model, in the order sort_keys puts them.
ParamNames == <<"limit", "name", "petId", "status">>

RECURSIVE SortedItems(_, _)
SortedItems(params, i) ==
    IF i > Len(ParamNames) THEN <<>>
    ELSE (IF HasKey(params, ParamNames[i])
          THEN <<<<ParamNames[i], Item(params, ParamNames[i])>>>> ELSE <<>>)
         \o SortedItems(params, i + 1)

\* CacheService.hash_params: the digest of the text of the sorted
\* parameters; two texts have the same digest exactly when they are equal.
hash_params(params) == "md5(" \o TokText(Dumps(Obj(SortedItems(params, 1))), 1) \o ")"

\* The loop of call_api that substitutes the path parameters.
RECURSIVE SubstitutePath(_, _, _)
SubstitutePath(url, path_params, i) ==
    IF i > Len(path_params.keys) THEN url
    ELSE SubstitutePath(Replace(url, "{" \o path_params.keys[i] \o "}", Str(path_params.vals[i])),
                        path_params, i + 1)

\* call_api: `response` is what the outbound request gives, if it is made:
\* kind "fail" is a network failure or a timeout, kind "http" a response
\* with its status, its text and the tokens of its body.
call_api(endpoint_id, path_params, query_params, response) ==
    With(get_details(endpoint_id), LAMBDA details :
    IF ~details.found
    THEN ToolReturn(ErrorObj("Endpoint " \o endpoint_id \o " not found"))
    ELSE
    With(SubstitutePath(details.full_url, path_params, 1), LAMBDA url :
    With(make_key(<<"api", endpoint_id, hash_params(Merge(path_params, query_params, 1))>>),
         LAMBDA cache_key :
    With(get(cache_key), LAMBDA cached :
    With([made |-> TRUE, method |-> details.method, url |-> url,
          params |-> IF Truthy(query_params) THEN query_params ELSE JNull],
         LAMBDA request :
    IF Truthy(cached)
    THEN ToolReturn(Obj(<<<<"data", cached>>, <<"cached", JBool(TRUE)>>>>))
    ELSE IF response.kind = "fail"
    THEN [ToolReturn(ErrorObj("Request failed: " \o response.text))
             EXCEPT !.request = request]
    ELSE IF response.status >= 400
    THEN [ToolReturn(Obj(<<<<"error", JStr("API returned " \o ToString(response.status))>>,
                           <<"message", JStr(Slice(response.text, 200))>>>>))
             EXCEPT !.request = request]
    ELSE
    With(Loads(response.body), LAMBDA parsed :
    IF ~parsed.ok
    THEN [ToolReturn(ErrorObj("Request failed: Expecting value"))
             EXCEPT !.request = request]
    ELSE
    With(set(cache_key, parsed.val, 0), LAMBDA written :
         [exc |-> FALSE,
          value |-> Obj(<<<<"data", parsed.val>>, <<"cached", JBool(FALSE)>>>>),
          store |-> written.store, memory_cache |-> written.memory_cache,
          request |-> request])))))))

\* What a formatter gives: exc = TRUE when it raises, with the exception.
Formatted(value) == [exc |-> FALSE, value |-> value, text |-> ""]
FormatRaise(text) == [exc |-> TRUE, value |-> JNull, text |-> text]

\* d.get(key, default) with a key that is itself a value: a string is looked
\* up, any other hashable key finds nothing.
GetByValue(obj, key, default) ==
    IF key.t = "str" THEN GetOr(obj, key.s, default) ELSE default

\* _format_table
format_table(data, config) ==
    IF data.t = "list" /\ data.items # <<>> /\ data.items[1].t = "obj"
    THEN LET columns == data.items[1].keys IN
         IF \E i \in 1..Len(data.items) : data.items[i].t # "obj" /\ columns # <<>>
         THEN FormatRaise("AttributeError")
         ELSE IF config.t # "obj" THEN FormatRaise("AttributeError")
         ELSE Formatted(Obj(<<
            <<"component", JStr("Table")>>,
            <<"data", Obj(<<
                <<"columns", Strings(columns)>>,
                <<"rows", JList([i \in 1..Len(data.items) |->
                    JList([c \in 1..Len(columns) |->
                              GetOr(data.items[i], columns[c], JStr(""))])])>>>>)>>,
            <<"config", Obj(<<<<"title", GetOr(config, "title", JStr("Results"))>>>>)>>>>))
    ELSE IF data.t = "obj"
    THEN IF config.t # "obj" THEN FormatRaise("AttributeError")
         ELSE Formatted(Obj(<<
            <<"component", JStr("Table")>>,
            <<"data", Obj(<<
                <<"columns", Strings(<<"Property", "Value">>)>>,
                <<"rows", JList([i \in 1..Len(data.keys) |->
                    JList(<<JStr(data.keys[i]), JStr(Slice(Str(data.vals[i]), 100))>>)])>>>>)>>,
            <<"config", Obj(<<<<"title", GetOr(config, "title", JStr("Details"))>>>>)>>>>))
    ELSE Formatted(ErrorObj("Cannot format as table"))

\* _format_bar_chart
format_bar_chart(data, config) ==
    IF data.t = "obj"
    THEN IF config.t # "obj" THEN FormatRaise("AttributeError")
         ELSE Formatted(Obj(<<
            <<"component", JStr("BarChart")>>,
            <<"data", Obj(<<
                <<"labels", Strings(data.keys)>>,
                <<"values", JList([i \in 1..Len(data.vals) |->
                    IF IsNumber(data.vals[i]) THEN data.vals[i] ELSE JNum(0)])>>>>)>>,
            <<"config", Obj(<<<<"title", GetOr(config, "title", JStr("Chart"))>>>>)>>>>))
    ELSE Formatted(ErrorObj("Cannot format as bar chart"))

\* The first field of a dictionary that holds a number, None if there is none.
FirstNumeric(obj) ==
    IF \E i \in 1..Len(obj.keys) : IsNumber(obj.vals[i])
    THEN JStr(obj.keys[CHOOSE i \in 1..Len(obj.keys) :
                /\ IsNumber(obj.vals[i])
                /\ \A j \in 1..(i - 1) : ~IsNumber(obj.vals[j])])
    ELSE JNull

\* _format_line_chart
format_line_chart(data, config) ==
    IF data.t = "list" /\ data.items # <<>> /\ data.items[1].t = "obj"
    THEN LET first == data.items[1] IN
         IF config.t # "obj" THEN FormatRaise("AttributeError")
         ELSE IF first.keys = <<>> THEN FormatRaise("IndexError")
         ELSE
         LET label_key == GetOr(config, "label_key", JStr(first.keys[1]))
             given == GetOr(config, "value_key", JNull)
             value_key == IF Truthy(given) THEN given ELSE FirstNumeric(first)
         IN IF ~Truthy(value_key) THEN Formatted(ErrorObj("Cannot format as line chart"))
            ELSE IF \E i \in 1..Len(data.items) : data.items[i].t # "obj"
            THEN FormatRaise("AttributeError")
            ELSE IF label_key.t \in {"list", "obj"} \/ value_key.t \in {"list", "obj"}
            THEN FormatRaise("TypeError")
            ELSE Formatted(Obj(<<
                <<"component", JStr("LineChart")>>,
                <<"data", Obj(<<
                    <<"labels", JList([i \in 1..Len(data.items) |->
                        JStr(Str(GetByValue(data.items[i], label_key, JNum(i - 1))))])>>,
                    <<"datasets", JList(<<Obj(<<
                        <<"label", value_key>>,
                        <<"values", JList([i \in 1..Len(data.items) |->
                            GetByValue(data.items[i], value_key, JNum(0))])>>>>)>>)>>>>)>>,
                <<"config", Obj(<<<<"title", GetOr(config, "title", JStr("Trend"))>>>>)>>>>))
    ELSE Formatted(ErrorObj("Cannot format as line chart"))

\* _format_metric
format_metric(data, config) ==
    IF data.t = "obj"
    THEN IF config.t # "obj" THEN FormatRaise("AttributeError")
         ELSE IF ~Truthy(GetOr(config, "value_key", JNull)) /\ data.keys = <<>>
         THEN FormatRaise("IndexError")
         ELSE
         LET given == GetOr(config, "value_key", JNull)
             value_key == IF Truthy(given) THEN given ELSE JStr(data.keys[1])
         IN IF value_key.t \in {"list", "obj"} THEN FormatRaise("TypeError")
            ELSE IF value_key.t # "str" THEN FormatRaise("AttributeError")
            ELSE Formatted(Obj(<<
                <<"component", JStr("MetricCard")>>,
                <<"data", Obj(<<
                    <<"value", JStr(Str(GetOr(data, value_key.s, JStr("N/A"))))>>,
                    <<"label", GetOr(config, "label",
                                     JStr(Title(Replace(value_key.s, "_", " "))))>>>>)>>,
                <<"config", JObj(<<>>, <<>>)>>>>))
    ELSE Formatted(ErrorObj("Cannot format as metric"))

\* format_for_widget
format_for_widget(data, widget_type, config) ==
    LET actual_data ==
            IF data.t = "obj" /\ HasKey(data, "items") /\ Item(data, "items").t = "list"
            THEN Item(data, "items")
            ELSE IF data.t = "obj" /\ HasKey(data, "data") /\ Item(data, "data").t = "list"
            THEN Item(data, "data")
            ELSE data
    IN With(CASE widget_type = "Table" -> format_table(actual_data, config)
              [] widget_type \in {"BarChart", "PieChart"} ->
                    format_bar_chart(actual_data, config)
              [] widget_type = "LineChart" -> format_line_chart(actual_data, config)
              [] widget_type = "MetricCard" -> format_metric(actual_data, config)
              [] OTHER -> Formatted(ErrorObj("Unknown widget type: " \o widget_type)),
            LAMBDA r :
       ToolReturn(IF r.exc THEN ErrorObj("Formatting failed: " \o r.text) ELSE r.value))

ALL_TOOLS == {"search_endpoints", "get_endpoint_schema", "call_api", "format_for_widget"}

----------------------------------------------------------------------------
(* agent/graph.py *)

\* The messages of a conversation.  `text` is the content of a system, human
\* or assistant message; `content` is the content of a tool message, the
\* tokens of a JSON text or a text that is not JSON.
Message(type, text) ==
    [type |-> type, text |-> text, content |-> <<>>, tool_calls |-> <<>>,
     tool_call_id |-> "", name |-> ""]

SystemMessage(text) == Message("system", text)
HumanMessage(text) == Message("human", text)
AIMessage(text, tool_calls) == [Message("ai", text) EXCEPT !.tool_calls = tool_calls]
ToolMessage(content, call) ==
    [Message("tool", "") EXCEPT !.content = content, !.tool_call_id = call.id,
                                !.name = call.name]

\* ToolNode(ALL_TOOLS) on one requested call: the tool message it gives, and
\* the cache the tool leaves.  A name that is no tool gives an error message.
\* When the tool raises, the node either answers with an error message
\* (handled) or lets the exception through (exc).
tool_node_call(call, response, handled) ==
    IF call.name \notin ALL_TOOLS
    THEN [exc |-> FALSE, store |-> store, memory_cache |-> memory_cache,
          message |-> ToolMessage(RawText("Error: " \o call.name \o " is not a valid tool"),
                                  call)]
    ELSE
    With(call.args, LAMBDA args :
    With(CASE call.name = "search_endpoints" ->
                search_endpoints(Item(args, "query").s, GetOr(args, "top_k", JNum(5)).n)
           [] call.name = "get_endpoint_schema" ->
                get_endpoint_schema(Item(args, "endpoint_id").s)
           [] call.name = "call_api" ->
                call_api(Item(args, "endpoint_id").s,
                         GetOr(args, "path_params", JObj(<<>>, <<>>)),
                         GetOr(args, "query_params", JObj(<<>>, <<>>)), response)
           [] call.name = "format_for_widget" ->
                format_for_widget(Item(args, "data"), Item(args, "widget_type").s,
                                  GetOr(args, "config", JObj(<<>>, <<>>))),
         LAMBDA r :
    IF r.exc
    THEN [exc |-> ~handled, store |-> r.store, memory_cache |-> r.memory_cache,
          message |-> ToolMessage(RawText("Error: the tool raised"), call)]
    ELSE [exc |-> FALSE, store |-> r.store, memory_cache |-> r.memory_cache,
          message |-> ToolMessage(Dumps(r.value), call)]))

\* should_continue
should_continue_format(messages) == "format"

should_continue_tools(messages) == "tools"

should_continue(messages) ==
    IF messages[Len(messages)].tool_calls # <<>> THEN "tools" ELSE "format"

\* A widget of the canvas.
Widget(id, component, column, row, width, height, data, config) ==
    Obj(<<<<"id", JStr(id)>>,
          <<"component", component>>,
          <<"position", Obj(<<<<"column", JNum(column)>>, <<"row", JNum(row)>>,
                              <<"width", JNum(width)>>, <<"height", JNum(height)>>>>)>>,
          <<"data", data>>,
          <<"config", config>>>>)

\* f"widget-{uuid.uuid4().hex[:8]}": the n-th identifier drawn.
WidgetId(n) == "widget-" \o ToString(n)

\* auto_format_data: none = TRUE is None, exc = TRUE the AttributeError of an
\* item of the list that is no dictionary.
auto_format_data(data, row, col, id) ==
    IF data.t = "list" /\ data.items # <<>> /\ data.items[1].t = "obj"
    THEN LET columns == Slice(data.items[1].keys, 10)
             items == Slice(data.items, 20)
         IN IF \E i \in 1..Len(items) : items[i].t # "obj" /\ columns # <<>>
            THEN [exc |-> TRUE, none |-> TRUE, widget |-> JNull]
            ELSE [exc |-> FALSE, none |-> FALSE,
                  widget |-> Widget(id, JStr("Table"), 1, row, 12, 2,
                        Obj(<<<<"columns", Strings(columns)>>,
                              <<"rows", JList([i \in 1..Len(items) |->
                                  JList([c \in 1..Len(columns) |->
                                      JStr(Slice(Str(GetOr(items[i], columns[c], JStr(""))),
                                                 50))])])>>>>),
                        Obj(<<<<"title", JStr("Results")>>>>))]
    ELSE IF data.t = "obj"
    THEN LET numeric == SelectSeq([i \in 1..Len(data.keys) |-> i],
                                  LAMBDA i : IsNumber(data.vals[i]))
         IN IF numeric # <<>>
            THEN [exc |-> FALSE, none |-> FALSE,
                  widget |-> Widget(id, JStr("BarChart"), col, row, 6, 2,
                        Obj(<<<<"labels", Strings([n \in 1..Len(numeric) |->
                                                      data.keys[numeric[n]]])>>,
                              <<"values", JList([n \in 1..Len(numeric) |->
                                                    data.vals[numeric[n]]])>>>>),
                        Obj(<<<<"title", JStr("Distribution")>>>>))]
            ELSE [exc |-> FALSE, none |-> FALSE,
                  widget |-> Widget(id, JStr("Table"), 1, row, 12, 2,
                        Obj(<<<<"columns", Strings(<<"Property", "Value">>)>>,
                              <<"rows", JList([i \in 1..Min(15, Len(data.keys)) |->
                                  JList(<<JStr(data.keys[i]),
                                          JStr(Slice(Str(data.vals[i]), 100))>>)])>>>>),
                        Obj(<<<<"title", JStr("Details")>>>>))]
    ELSE [exc |-> FALSE, none |-> TRUE, widget |-> JNull]

\* `key in tool_result` of format_output_node: "raise" is the TypeError of a
\* number or a bool.
InResult(tool_result, key) ==
    CASE tool_result.t = "obj" -> IF HasKey(tool_result, key) THEN "yes" ELSE "no"
      [] tool_result.t = "list" ->
            IF \E i \in 1..Len(tool_result.items) : tool_result.items[i] = JStr(key)
            THEN "yes" ELSE "no"
      [] tool_result.t = "str" -> IF Contains(tool_result.s, key) THEN "yes" ELSE "no"
      [] OTHER -> "raise"

\* A cursor that would put three widgets of width 6 on a row, and one that
\* would never start a new row.
AdvanceThree(st, width, height) ==
    IF st.col + width > 18
    THEN [st EXCEPT !.col = 1, !.row = st.row + height]
    ELSE [st EXCEPT !.col = st.col + width]

AdvanceNoWrap(st, width, height) == [st EXCEPT !.col = st.col + width]

\* The cursor of format_output_node after a widget of the given size.
Advance(st, width, height) ==
    IF st.col + width > 12
    THEN [st EXCEPT !.col = 1, !.row = st.row + height]
    ELSE [st EXCEPT !.col = st.col + width]

\* The body of the loop of format_output_node on one message.  st holds the
\* widgets so far, the cursor, the identifiers drawn, and exc: an exception
\* the loop does not catch.
FormatMessage(st, msg) ==
    IF st.exc \/ msg.type # "tool" THEN st
    ELSE
    With(Loads(msg.content), LAMBDA parsed :
    IF ~parsed.ok THEN st
    ELSE
    With(parsed.val, LAMBDA tool_result :
    With([st EXCEPT !.uuid = st.uuid + 1], LAMBDA drawn :
       IF ~Truthy(tool_result) \/ InResult(tool_result, "component") = "raise" THEN st
       ELSE IF InResult(tool_result, "component") = "yes" /\ InResult(tool_result, "data") = "yes"
       THEN IF tool_result.t # "obj" THEN drawn
            ELSE Advance([drawn EXCEPT !.widgets = Append(st.widgets,
                            Widget(WidgetId(st.uuid), Item(tool_result, "component"),
                                   st.col, st.row, 6, 2, Item(tool_result, "data"),
                                   GetOr(tool_result, "config", JObj(<<>>, <<>>))))],
                         6, 2)
       ELSE IF InResult(tool_result, "data") = "yes"
       THEN IF tool_result.t # "obj" THEN [st EXCEPT !.exc = TRUE]
            ELSE IF Truthy(GetOr(tool_result, "error", JNull)) THEN st
            ELSE With(auto_format_data(Item(tool_result, "data"), st.row, st.col,
                                       WidgetId(st.uuid)), LAMBDA w :
                    IF w.exc THEN [drawn EXCEPT !.exc = TRUE]
                    ELSE IF w.none THEN drawn
                    ELSE Advance([drawn EXCEPT !.widgets = Append(st.widgets, w.widget)],
                                 Item(Item(w.widget, "position"), "width").n,
                                 Item(Item(w.widget, "position"), "height").n))
       ELSE st)))

RECURSIVE FormatFrom(_, _, _)
FormatFrom(st, messages, i) ==
    IF i > Len(messages) THEN st
    ELSE With(FormatMessage(st, messages[i]), LAMBDA next :
              FormatFrom(next, messages, i + 1))

\* A choice of the first assistant message without tool calls.
FinalMessageFirst(messages) ==
    LET plain == {i \in 1..Len(messages) :
                    messages[i].type = "ai" /\ messages[i].tool_calls = <<>>}
    IN IF plain = {} THEN "Here's what I found for you."
       ELSE messages[CHOOSE i \in plain : \A j \in plain : i <= j].text

\* The last assistant message without tool calls, or the fallback sentence.
FinalMessage(messages) ==
    LET plain == {i \in 1..Len(messages) :
                    messages[i].type = "ai" /\ messages[i].tool_calls = <<>>}
    IN IF plain = {} THEN "Here's what I found for you."
       ELSE messages[CHOOSE i \in plain : \A j \in plain : j <= i].text

\* format_output_node
format_output_node(messages, drawn) ==
    With(FormatFrom([widgets |-> <<>>, row |-> 1, col |-> 1, uuid |-> drawn,
                     exc |-> FALSE], messages, 1), LAMBDA st :
         [exc |-> st.exc, widgets |-> JList(st.widgets),
          final_response |-> FinalMessage(messages), uuid |-> st.uuid])

----------------------------------------------------------------------------
(* agent/core.py *)

ContextLimit == 3
SYSTEM_PROMPT == "You are Seefast, an AI assistant for exploring and visualizing API data."

RECURSIVE ContextMessages(_, _)
ContextMessages(context, i) ==
    IF i > Len(context) THEN <<>>
    ELSE <<IF context[i].role = "user" THEN HumanMessage(context[i].content.s)
           ELSE AIMessage(context[i].content.s, <<>>)>>
         \o ContextMessages(context, i + 1)

\* process_query, up to the initial state: exc is an exception of
\* get_context_messages, or of a message whose content is no text.
initial_messages(session_id, message) ==
    With(get_context_messages(session_id, ContextLimit), LAMBDA context :
    IF context.exc \/ \E i \in 1..Len(context.messages) : context.messages[i].content.t # "str"
    THEN [exc |-> TRUE, messages |-> <<>>]
    ELSE [exc |-> FALSE,
          messages |-> <<SystemMessage(SYSTEM_PROMPT)>>
                       \o ContextMessages(context.messages, 1)
                       \o <<HumanMessage(message)>>])

\* The result of the except branch of process_query.
ErrorResult(text) == [message |-> "I encountered an error: " \o text, widgets |-> JList(<<>>)]

----------------------------------------------------------------------------
(* The service: startup, then invocations of the control loop, one at a time *)

\* The model follows the last MaxMessages messages of a conversation and the
\* first MaxTrace nodes of an invocation: only an invocation whose backend
\* never stops asking for tools has more.
MaxMessages == 2 + 2 * ContextLimit + 3 * (MaxRounds + 1)
MaxTrace == 2 * MaxRounds + 3

\* A field without operator.add: the update of a node takes the place of the
\* sequence.
Overwrite(messages, new) == new

\* messages: Annotated[Sequence[BaseMessage], operator.add]
Grow(messages, new) == LastN(messages \o new, MaxMessages)
Record(nodes, node) == IF Len(nodes) < MaxTrace THEN Append(nodes, node) ELSE nodes

NoMessage == Message("none", "")

Call(name, args, id) == [name |-> name, args |-> Obj(args), id |-> id]

\* The tool calls a reasoning step may ask for.
SearchPets == Call("search_endpoints", <<<<"query", JStr("pets")>>>>, "call_1")
SchemaOfPet == Call("get_endpoint_schema", <<<<"endpoint_id", JStr("GET_/pet")>>>>, "call_1")
CallPetById ==
    Call("call_api", <<<<"endpoint_id", JStr("GET_/pet/{petId}")>>,
                       <<"path_params", Obj(<<<<"petId", JNum(1)>>>>)>>>>, "call_2")
CallPets ==
    Call("call_api", <<<<"endpoint_id", JStr("GET_/pet")>>,
                       <<"query_params", Obj(<<<<"status", JStr("sold")>>>>)>>>>, "call_1")
FormatBars ==
    Call("format_for_widget",
         <<<<"data", Obj(<<<<"available", JNum(2)>>, <<"sold", JNum(1)>>>>)>>,
           <<"widget_type", JStr("BarChart")>>>>, "call_2")
NoSuchTool == Call("lookup", <<>>, "call_1")

ToolBatches ==
    {<<SearchPets>>, <<SchemaOfPet, CallPetById>>, <<CallPets, FormatBars>>, <<NoSuchTool>>}

\* What the upstream API may answer to a request.
HttpResponse(status, text, body) ==
    [kind |-> "http", status |-> status, text |-> text, body |-> body]

HttpResponses ==
    {[kind |-> "fail", status |-> 0, text |-> "timed out", body |-> <<>>],
     HttpResponse(404, "Pet not found", RawText("Pet not found")),
     HttpResponse(200, "", Dumps(JList(<<Obj(<<<<"id", JNum(1)>>, <<"name", JStr("rex")>>>>)>>))),
     HttpResponse(200, "", Dumps(JList(<<Obj(<<<<"id", JNum(1)>>>>), JNum(5)>>))),
     HttpResponse(200, "", Dumps(Obj(<<<<"sold", JNum(1)>>, <<"name", JStr("rex")>>>>)))}

\* A backend that asks for tools on its first k steps, and one that always does.
Scripted(k) == [forever |-> FALSE, rounds |-> k, script |-> k]
Stubborn == [forever |-> TRUE, rounds |-> 0, script |-> 0]
Backends == {Scripted(k) : k \in 0..MaxRounds}

\* main.py lifespan: load the catalog (a failure is printed), then make the
\* cache.
Lifespan(d, fetch_ok, delete_ok, create_ok, add_ok) ==
    /\ pc = "boot"
    /\ \E r \in {load_swagger(IF fetch_ok THEN [ok |-> TRUE, spec |-> Documents[d]]
                                ELSE [ok |-> FALSE, spec |-> JNull],
                                delete_ok, create_ok, add_ok)} :
          /\ collection' = r.collection
          /\ endpoints_cache' = r.endpoints_cache
          /\ parser' = r.parser
          /\ loads' = Append(loads, [doc |-> d, ok |-> ~r.exc, before |-> RegistryView])
          /\ regOp' = [op |-> "load_swagger", exc |-> r.exc, ret |-> r.ret]
    /\ cache_made' = TRUE
    /\ connected' = IF cache_made THEN connected ELSE redis_up
    /\ pc' = "idle"
    /\ UNCHANGED <<redis_up, store, memory_cache, clock, ghostVars, session, question, llm,
                   state_messages, outputs, state_widgets, state_final_response, result,
                   uuid, trace, failure, invocations>>

\* process_query, lines 26-48: the memory of the session, the context and
\* the initial state.  An exception here is outside the try statement.
StartQuery(session_id, message, backend) ==
    /\ pc \in {"idle", "returned", "raised"}
    /\ invocations < MaxInvocations
    /\ \E seed \in {initial_messages(session_id, message)} :
        /\ pc' = IF seed.exc THEN "raised" ELSE "agent"
        /\ failure' = IF seed.exc THEN "context" ELSE ""
        /\ state_messages' = seed.messages
    /\ session' = session_id
    /\ question' = message
    /\ llm' = backend
    /\ outputs' = <<>>
    /\ state_widgets' = JList(<<>>)
    /\ state_final_response' = ""
    /\ result' = NoResult
    /\ trace' = <<>>
    /\ invocations' = invocations + 1
    /\ UNCHANGED <<cacheVars, clock, ghostVars, regVars, uuid>>

\* process_query, lines 65-72: an exception of the graph or of add_turn.
Throw(step) ==
    /\ pc' = "returned"
    /\ result' = ErrorResult(step)
    /\ failure' = step

\* agent_node and the routing after it: the backend answers with tool calls
\* while its script asks for them, then with a text; llm_ok = FALSE is the
\* backend raising.
Reason(tool_calls, llm_ok) ==
    /\ pc = "agent"
    /\ IF ~llm_ok
       THEN /\ Throw("agent")
            /\ UNCHANGED <<state_messages, llm, outputs, trace>>
       ELSE \E response \in {IF llm.forever \/ llm.rounds > 0
                               THEN AIMessage("", tool_calls)
                               ELSE AIMessage(AssistantText(session), <<>>)} :
            \E after \in {Grow(state_messages, <<response>>)} :
               /\ state_messages' = after
               /\ llm' = [llm EXCEPT !.rounds = IF @ > 0 THEN @ - 1 ELSE 0]
               /\ pc' = should_continue(after)
               /\ outputs' = [i \in 1..Len(response.tool_calls) |-> NoMessage]
               /\ trace' = Record(trace, "agent")
               /\ UNCHANGED <<result, failure>>
    /\ UNCHANGED <<cacheVars, clock, ghostVars, regVars, session, question, state_widgets,
                   state_final_response, uuid, invocations>>

\* ToolNode: one of the calls of the round runs; the round ends with the
\* last of them, its tool messages appended in the order of the calls.
ToolExec(i, response, handled) ==
    /\ pc = "tools"
    /\ i \in 1..Len(outputs)
    /\ outputs[i] = NoMessage
    /\ \E r \in {tool_node_call(state_messages[Len(state_messages)].tool_calls[i],
                                   response, handled)} :
       \E done \in {[outputs EXCEPT ![i] = r.message]} :
          /\ store' = r.store
          /\ memory_cache' = r.memory_cache
          /\ IF r.exc
             THEN /\ Throw("tools")
                  /\ UNCHANGED <<state_messages, outputs, trace>>
             ELSE IF \A j \in 1..Len(done) : done[j] # NoMessage
             THEN /\ state_messages' = Grow(state_messages, done)
                  /\ outputs' = <<>>
                  /\ pc' = "agent"
                  /\ trace' = Record(trace, "tools")
                  /\ UNCHANGED <<result, failure>>
             ELSE /\ outputs' = done
                  /\ UNCHANGED <<state_messages, pc, trace, result, failure>>
    /\ UNCHANGED <<cache_made, connected, redis_up, clock, ghostVars, regVars, session,
                   question, llm, state_widgets, state_final_response, uuid, invocations>>

\* A formatting stage that would pass without writing its two fields.
FormatSkipped ==
    /\ pc = "format"
    /\ pc' = "end"
    /\ trace' = Record(trace, "format")
    /\ UNCHANGED <<cacheVars, clock, ghostVars, regVars, session, question, llm,
                   state_messages, outputs, state_widgets, state_final_response, result,
                   uuid, failure, invocations>>

\* format_output_node
Format ==
    /\ pc = "format"
    /\ \E r \in {format_output_node(state_messages, uuid)} :
        /\ uuid' = r.uuid
        /\ IF r.exc
           THEN /\ Throw("format")
                /\ UNCHANGED <<state_widgets, state_final_response, trace>>
           ELSE /\ state_widgets' = r.widgets
                /\ state_final_response' = r.final_response
                /\ pc' = "end"
                /\ trace' = Record(trace, "format")
                /\ UNCHANGED <<result, failure>>
    /\ UNCHANGED <<cacheVars, clock, ghostVars, regVars, session, question, llm,
                   state_messages, outputs, invocations>>

\* process_query, lines 54-63: the turn is saved and the result returned.
Done ==
    /\ pc = "end"
    /\ \E w \in {add_turn(session, question, state_final_response, state_widgets)} :
        /\ store' = w.store
        /\ memory_cache' = w.memory_cache
        /\ IF w.exc
           THEN /\ Throw("save")
                /\ UNCHANGED <<trace, log>>
           ELSE /\ result' = [message |-> state_final_response, widgets |-> state_widgets]
                /\ pc' = "returned"
                /\ trace' = Record(trace, "end")
                /\ log' = [log EXCEPT ![session] =
                              Append(@, Turn(question, state_final_response, state_widgets))]
                /\ UNCHANGED failure
    /\ clock' = clock + 1
    /\ UNCHANGED <<cache_made, connected, redis_up, lastOp, steps, outages, steady, regVars,
                   session, question, llm, state_messages, outputs, state_widgets,
                   state_final_response, uuid, invocations>>

\* The control loop on its own: one session, tools that read the registry,
\* and backends that stop asking for tools or never do.
LoopBatches == {<<SearchPets, SchemaOfPet>>, <<NoSuchTool>>}

LoopStep ==
    \/ \E tool_calls \in LoopBatches, llm_ok \in BOOLEAN : Reason(tool_calls, llm_ok)
    \/ \E i \in 1..2 : ToolExec(i, HttpResponse(404, "Pet not found", <<>>), TRUE)
    \/ Format
    \/ Done

LoopNext ==
    \/ \E fetch_ok \in BOOLEAN : Lifespan(1, fetch_ok, TRUE, TRUE, TRUE)
    \/ \E backend \in Backends \cup {Stubborn} : StartQuery("A", UserText("A"), backend)
    \/ LoopStep

\* The event loop resumes an invocation that can take a step.
SpecLoop == CacheInit /\ [][LoopNext]_vars /\ WF_vars(LoopStep)

RECURSIVE Rounds(_)
Rounds(k) == IF k = 0 THEN <<>> ELSE <<"agent", "tools">> \o Rounds(k - 1)

ScriptedPath(k) == Rounds(k) \o <<"agent", "format", "end">>

IsPrefix(nodes, path) == Len(nodes) <= Len(path) /\ SubSeq(path, 1, Len(nodes)) = nodes

\* C5: with a backend that asks for tools on its first k reasoning steps and
\* answers in text on step k+1, and no step raising, the invocation passes
\* agent and tools k times, then agent, format once, and the end: at every
\* moment it is on that path, and it has walked all of it when it returns.
C5_ScriptedTermination ==
    (~llm.forever /\ failure = "" /\ pc \in {"agent", "tools", "format", "end", "returned"})
        => /\ IsPrefix(trace, ScriptedPath(llm.script))
           /\ pc = "returned" => trace = ScriptedPath(llm.script)
           /\ pc = "format" => trace = Rounds(llm.script) \o <<"agent">>

C5_Witness ==
    /\ pc = "returned" /\ failure = "" /\ ~llm.forever /\ llm.script = 2
    /\ trace = <<"agent", "tools", "agent", "tools", "agent", "format", "end">>

----------------------------------------------------------------------------
(* The service over a store that other writers share *)

\* A history record that add_turn did not write: its turn has no "user".
ForeignHistory == JList(<<Obj(<<<<"assistant", JStr("hello")>>>>)>>)

\* The backing store holds what was written to it before this process
\* started: nothing, or a record under the history key of session B.
ServiceInit ==
    /\ cache_made = FALSE
    /\ connected = FALSE
    /\ redis_up = TRUE
    /\ store \in {EmptyDict,
                  Put(EmptyDict, history_key("B"),
                      [text |-> Dumps(ForeignHistory), ttl |-> HistoryTtl])}
    /\ memory_cache = EmptyDict
    /\ clock = 0
    /\ lastOp = NoOp
    /\ steps = 0
    /\ outages = 0
    /\ steady = TRUE
    /\ log = [sid \in Sessions |-> <<>>]
    /\ RegistryIdle
    /\ AgentIdle

ServiceBatches == {<<SearchPets>>, <<NoSuchTool>>}

ServiceNext ==
    \/ \E fetch_ok \in BOOLEAN : Lifespan(1, fetch_ok, TRUE, TRUE, TRUE)
    \/ \E session_id \in Sessions, k \in 0..1 :
          StartQuery(session_id, UserText(session_id), Scripted(k))
    \/ \E tool_calls \in ServiceBatches, llm_ok \in BOOLEAN : Reason(tool_calls, llm_ok)
    \/ \E handled \in BOOLEAN : ToolExec(1, HttpResponse(404, "Pet not found", <<>>), handled)
    \/ Format
    \/ Done

SpecService == ServiceInit /\ [][ServiceNext]_vars

----------------------------------------------------------------------------
(* The tools on their own: calls of call_api and get_endpoint_schema after
   startup, over a store that expires records and may be unreachable *)

Ten(s) == s \o s \o s \o s \o s \o s \o s \o s \o s \o s

\* A body of 210 characters.
LongBody == Ten(Ten("ab")) \o "0123456789"

\* The arguments of the call_api calls of the model.
ApiCall(endpoint_id, path_params, query_params) ==
    [endpoint_id |-> endpoint_id, path_params |-> Obj(path_params),
     query_params |-> Obj(query_params)]

ApiCalls ==
    {ApiCall("GET_/pet/{petId}", <<<<"petId", JNum(1)>>>>, <<>>),
     ApiCall("GET_/pet", <<>>, <<<<"status", JStr("sold")>>>>),
     ApiCall("GET_/pet", <<>>, <<>>),
     ApiCall("GET_/user/{name}", <<<<"name", JStr("rex")>>>>, <<>>)}

\* What the upstream API may answer: no answer, an error status with a short
\* or a long body, a body that is no JSON, and payloads (two of them empty).
ApiResponses ==
    {[kind |-> "fail", status |-> 0, text |-> "timed out", body |-> <<>>],
     HttpResponse(404, "Pet not found", RawText("Pet not found")),
     HttpResponse(500, LongBody, RawText(LongBody)),
     HttpResponse(200, "<html>", RawText("<html>")),
     HttpResponse(200, "", Dumps(JList(<<Obj(<<<<"id", JNum(1)>>, <<"name", JStr("rex")>>>>)>>))),
     HttpResponse(200, "", Dumps(JList(<<>>))),
     HttpResponse(200, "", Dumps(JObj(<<>>, <<>>)))}

\* The ids the index holds: what search can return and get_endpoint_count
\* counts.
IndexedIds == {collection.entries[i].id : i \in 1..Len(collection.entries)}

\* What of a call is kept for the call after it.
Brief(op) ==
    IF op.op = "call_api"
    THEN [op |-> "call_api", call |-> op.call, exc |-> op.exc, value |-> op.value]
    ELSE [op |-> op.op]

\* One call of the call_api tool.
CallApi(call, response) ==
    /\ pc = "idle" /\ steps < MaxCalls
    /\ \E r \in {call_api(call.endpoint_id, call.path_params, call.query_params, response)} :
          /\ store' = r.store
          /\ memory_cache' = r.memory_cache
          /\ lastOp' = [op |-> "call_api", call |-> call, response |-> response,
                        exc |-> r.exc, value |-> r.value, request |-> r.request,
                        key |-> make_key(<<"api", call.endpoint_id,
                                           hash_params(Merge(call.path_params,
                                                             call.query_params, 1))>>),
                        indexed |-> call.endpoint_id \in IndexedIds,
                        store_before |-> store, memory_before |-> memory_cache,
                        mode |-> Mode, prev |-> Brief(lastOp)]
    /\ steps' = steps + 1
    /\ UNCHANGED <<cache_made, connected, redis_up, clock, outages, steady, log, regVars,
                   agentVars>>

\* One call of the get_endpoint_schema tool.
GetEndpointSchema(endpoint_id) ==
    /\ pc = "idle" /\ steps < MaxCalls
    /\ \E r \in {get_endpoint_schema(endpoint_id)} :
          lastOp' = [op |-> "get_endpoint_schema", id |-> endpoint_id, exc |-> r.exc,
                     value |-> r.value, details |-> get_details(endpoint_id),
                     indexed |-> endpoint_id \in IndexedIds]
    /\ steps' = steps + 1
    /\ UNCHANGED <<cacheVars, clock, outages, steady, log, regVars, agentVars>>

ToolsNext ==
    \/ \E fetch_ok, add_ok \in BOOLEAN : Lifespan(1, fetch_ok, TRUE, TRUE, add_ok)
    \/ \E call \in ApiCalls, response \in ApiResponses : CallApi(call, response)
    \/ \E endpoint_id \in {"GET_/pet", "GET_/user/{name}"} : GetEndpointSchema(endpoint_id)
    \/ \E key \in DOMAIN store : pc = "idle" /\ Expire(key)
    \/ pc = "idle" /\ StoreDown
    \/ pc = "idle" /\ StoreUp

SpecTools == CacheInit /\ [][ToolsNext]_vars

\* C12: call_api never raises an upstream failure: a status >= 400 gives
\* {error: "API returned <status>", message: the body cut to at most 200
\* characters}, a request that fails or times out gives an object with an
\* error field, and so does a body that is no JSON.
C12_UpstreamFailuresAreResults ==
    (lastOp.op = "call_api" /\ lastOp.request.made)
    => /\ ~lastOp.exc
       /\ (lastOp.response.kind = "http" /\ lastOp.response.status >= 400)
             => /\ lastOp.value.keys = <<"error", "message">>
                /\ Item(lastOp.value, "error")
                      = JStr("API returned " \o ToString(lastOp.response.status))
                /\ Len(Item(lastOp.value, "message").s) <= 200
                /\ Item(lastOp.value, "message").s
                      = SubSeq(lastOp.response.text, 1, Len(Item(lastOp.value, "message").s))
                /\ Len(lastOp.response.text) <= 200
                      => Item(lastOp.value, "message").s = lastOp.response.text
       /\ lastOp.response.kind = "fail" => HasKey(lastOp.value, "error")

C12_Witness ==
    /\ lastOp.op = "call_api" /\ lastOp.request.made /\ ~lastOp.exc
    /\ lastOp.response.status = 500
    /\ Item(lastOp.value, "error") = JStr("API returned 500")
    /\ Len(Item(lastOp.value, "message").s) = 200
    /\ Len(lastOp.response.text) = 210

\* Whether a result of call_api is the payload of a request just made, and
\* whether it is an error result.
IsFreshResult(value) ==
    /\ value.t = "obj" /\ value.keys = <<"data", "cached">>
    /\ Item(value, "cached") = JBool(FALSE)

IsCachedResult(value) ==
    /\ value.t = "obj" /\ value.keys = <<"data", "cached">>
    /\ Item(value, "cached") = JBool(TRUE)

IsErrorResult(value) == value.t = "obj" /\ HasKey(value, "error")

\* The records of a map other than the one of a key.
Others(map, key) == [k \in DOMAIN map \ {key} |-> map[k]]

\* C13: a call_api that ends in an error result leaves the store and the
\* in-process map as they were, and the identical call right after it is not
\* answered from the cache; a call that returns a fresh payload writes the
\* record of its own key, in one place, and no other record.
C13_OnlySuccessIsCached ==
    (lastOp.op = "call_api" /\ ~lastOp.exc)
    => /\ IsErrorResult(lastOp.value)
             => /\ store = lastOp.store_before
                /\ memory_cache = lastOp.memory_before
       /\ (lastOp.prev.op = "call_api" /\ lastOp.prev.call = lastOp.call
             /\ IsErrorResult(lastOp.prev.value))
             => ~IsCachedResult(lastOp.value)
       /\ IsFreshResult(lastOp.value)
             => /\ Others(store, lastOp.key) = Others(lastOp.store_before, lastOp.key)
                /\ Others(memory_cache, lastOp.key)
                      = Others(lastOp.memory_before, lastOp.key)
                /\ store = lastOp.store_before \/ memory_cache = lastOp.memory_before
                /\ lastOp.key \in DOMAIN store \cup DOMAIN memory_cache
                /\ get(lastOp.key) = Item(lastOp.value, "data")

C13_Witness ==
    /\ lastOp.op = "call_api" /\ IsFreshResult(lastOp.value)
    /\ lastOp.prev.op = "call_api" /\ lastOp.prev.call = lastOp.call
    /\ IsErrorResult(lastOp.prev.value)
    /\ lastOp.key \notin DOMAIN lastOp.store_before
    /\ lastOp.key \in DOMAIN store
    /\ Truthy(get(lastOp.key))

\* C14: when a call_api has returned {data: d, cached: false}, the identical
\* call made right after it, nothing having expired or been deleted in
\* between, returns {data: d, cached: true} and makes no request.
C14_Memoization ==
    (lastOp.op = "call_api" /\ lastOp.prev.op = "call_api"
        /\ lastOp.prev.call = lastOp.call /\ IsFreshResult(lastOp.prev.value))
    => /\ ~lastOp.exc
       /\ lastOp.value = Obj(<<<<"data", Item(lastOp.prev.value, "data")>>,
                               <<"cached", JBool(TRUE)>>>>)
       /\ ~lastOp.request.made

\* C15: for an id the index does not hold, get_details finds nothing,
\* get_endpoint_schema returns an object with an error field, and call_api
\* returns an object with an error field, makes no request and writes no
\* record; none of them raises.
C15_LookupMissesAreValues ==
    /\ (lastOp.op = "get_endpoint_schema" /\ ~lastOp.indexed)
          => /\ ~lastOp.exc
             /\ ~lastOp.details.found
             /\ IsErrorResult(lastOp.value)
    /\ (lastOp.op = "call_api" /\ ~lastOp.indexed)
          => /\ ~lastOp.exc
             /\ IsErrorResult(lastOp.value)
             /\ ~lastOp.request.made
             /\ store = lastOp.store_before
             /\ memory_cache = lastOp.memory_before


----------------------------------------------------------------------------
(* format_output_node on its own: it is applied to every sequence of up to
   MaxFormatMessages messages drawn from the kinds of tool results the tools
   produce, with assistant messages in between *)

MaxFormatMessages == 4

ToolContent(content) == ToolMessage(content, Call("call_api", <<>>, "call_1"))

\* A result of format_for_widget, three results of call_api that classify
\* as bar chart, table and property table, an error result, a result of
\* search_endpoints, the text of a tool that failed, and a payload whose
\* list holds an object and a number.
WidgetPayload ==
    Obj(<<<<"component", JStr("LineChart")>>, <<"data", JList(<<JNum(3)>>)>>,
          <<"config", Obj(<<<<"title", JStr("t")>>>>)>>>>)
BarsPayload ==
    Obj(<<<<"data", Obj(<<<<"sold", JNum(1)>>, <<"name", JStr("rex")>>>>)>>,
          <<"cached", JBool(FALSE)>>>>)
RowsPayload ==
    Obj(<<<<"data", JList(<<Obj(<<<<"id", JNum(1)>>>>)>>)>>, <<"cached", JBool(FALSE)>>>>)
DetailsPayload ==
    Obj(<<<<"data", Obj(<<<<"name", JStr("rex")>>>>)>>, <<"cached", JBool(TRUE)>>>>)
ErrorPayload ==
    Obj(<<<<"error", JStr("API returned 404")>>, <<"message", JStr("Pet not found")>>>>)
SearchPayload == JList(<<Obj(<<<<"id", JStr("GET_/pet")>>>>)>>)
MixedRowsPayload ==
    Obj(<<<<"data", JList(<<Obj(<<<<"id", JNum(1)>>>>), JNum(5)>>)>>,
          <<"cached", JBool(FALSE)>>>>)

FormatInputs ==
    {ToolContent(Dumps(WidgetPayload)), ToolContent(Dumps(BarsPayload)),
     ToolContent(Dumps(RowsPayload)), ToolContent(Dumps(DetailsPayload)),
     ToolContent(Dumps(ErrorPayload)), ToolContent(Dumps(SearchPayload)),
     ToolContent(RawText("Error: lookup is not a valid tool")),
     ToolContent(Dumps(MixedRowsPayload)),
     AIMessage("", <<SearchPets>>)}

\* The state in which FORMAT is entered with a sequence of messages drawn
\* from the given ones.
FormatEntry(inputs) ==
    /\ cache_made = FALSE /\ connected = FALSE /\ redis_up = TRUE
    /\ store = EmptyDict /\ memory_cache = EmptyDict
    /\ clock = 0 /\ lastOp = NoOp /\ steps = 0 /\ outages = 0 /\ steady = TRUE
    /\ log = [sid \in Sessions |-> <<>>]
    /\ RegistryIdle
    /\ pc = "format" /\ session = "A" /\ question = UserText("A") /\ llm = NoBackend
    /\ state_messages \in UNION {[1..n -> inputs] : n \in 0..MaxFormatMessages}
    /\ outputs = <<>> /\ state_widgets = JList(<<>>)
    /\ state_final_response = "" /\ result = NoResult /\ uuid = 0
    /\ trace = <<>> /\ failure = "" /\ invocations = 1

FormatInit == FormatEntry(FormatInputs)

FormatNext == Format

SpecFormat == FormatInit /\ [][FormatNext]_vars

\* A field of the position of a widget.
Pos(widget, field) == Item(Item(widget, "position"), field).n

\* The widgets FORMAT has emitted.
Emitted == state_widgets.items

AllOfWidth(width) == \A k \in 1..Len(Emitted) : Pos(Emitted[k], "width") = width


\* C16 as stated: of widgets of width 6 placed from column 1 of row 1, the
\* fourth is at column 1 on a row below the row of the third.
C16_FourthStartsRow ==
    (pc = "end" /\ AllOfWidth(6) /\ Len(Emitted) >= 4)
    => /\ Pos(Emitted[4], "column") = 1
       /\ Pos(Emitted[4], "row") > Pos(Emitted[3], "row")

\* C16, amended: of widgets of width 6 placed from column 1 of row 1, two
\* fit a row: the first is at column 1 of row 1, the second beside it at
\* column 7, the third starts a new row (column 1, a row below the second),
\* and the fourth is beside the third at column 7; every odd widget starts a
\* row and every even one ends it.
C16_ThirdStartsRow ==
    (pc = "end" /\ AllOfWidth(6))
    => \A k \in 1..Len(Emitted) :
          /\ Pos(Emitted[k], "column") = (IF k % 2 = 1 THEN 1 ELSE 7)
          /\ k = 1 => Pos(Emitted[k], "row") = 1
          /\ (k > 1 /\ k % 2 = 1) => Pos(Emitted[k], "row") > Pos(Emitted[k - 1], "row")
          /\ (k > 1 /\ k % 2 = 0) => Pos(Emitted[k], "row") = Pos(Emitted[k - 1], "row")

C16_Witness ==
    /\ pc = "end" /\ AllOfWidth(6) /\ Len(Emitted) = 4
    /\ Pos(Emitted[3], "column") = 1 /\ Pos(Emitted[3], "row") = 3
    /\ Pos(Emitted[4], "column") = 7 /\ Pos(Emitted[4], "row") = 3


\* C17: every widget FORMAT emits has its column in 1..12, its row >= 1 and
\* its last column within the 12 units of the grid; the first widget is at
\* column 1 of row 1; and the widths are the ones the widgets are given (6,
\* or 12 for a table classified from raw data), never a width cut to fit.
C17_GridBounds ==
    (pc = "end")
    => /\ \A k \in 1..Len(Emitted) :
             /\ Pos(Emitted[k], "column") \in 1..12
             /\ Pos(Emitted[k], "row") >= 1
             /\ Pos(Emitted[k], "column") + Pos(Emitted[k], "width") - 1 <= 12
             /\ Pos(Emitted[k], "width")
                   = (IF Item(Emitted[k], "component") = JStr("Table") THEN 12 ELSE 6)
       /\ Emitted # <<>>
             => Pos(Emitted[1], "column") = 1 /\ Pos(Emitted[1], "row") = 1

C17_Witness ==
    /\ pc = "end" /\ Len(Emitted) = 4
    /\ Pos(Emitted[1], "width") = 6 /\ Pos(Emitted[2], "width") = 12
    /\ Pos(Emitted[3], "width") = 6 /\ Pos(Emitted[4], "column") = 7
    /\ Pos(Emitted[4], "row") > Pos(Emitted[2], "row")


\* The classification of a tool message, in the words of the statement:
\* "widget" for a payload with component and data, else for a payload with
\* data and no error "rows" (a list of objects), "bars" (an object with
\* numeric values) or "details" (another object); "none" for the rest.
ShapeOf(data) ==
    IF data.t = "list" /\ data.items # <<>>
          /\ \A i \in 1..Len(data.items) : data.items[i].t = "obj"
    THEN "rows"
    ELSE IF data.t = "obj"
    THEN IF \E i \in 1..Len(data.vals) : IsNumber(data.vals[i]) THEN "bars" ELSE "details"
    ELSE "none"

Classified(msg) ==
    IF msg.type # "tool" THEN "none"
    ELSE With(Loads(msg.content), LAMBDA parsed :
         IF ~parsed.ok \/ parsed.val.t # "obj" THEN "none"
         ELSE IF HasKey(parsed.val, "component") /\ HasKey(parsed.val, "data") THEN "widget"
         ELSE IF HasKey(parsed.val, "data") /\ ~HasKey(parsed.val, "error")
         THEN ShapeOf(Item(parsed.val, "data"))
         ELSE "none")

\* The places in the sequence of the messages that are to give a widget.
WidgetSources ==
    SelectSeq([i \in 1..Len(state_messages) |-> i],
              LAMBDA i : Classified(state_messages[i]) # "none")

\* Whether a widget is the one the message is to give.
WidgetOf(widget, msg) ==
    With(Loads(msg.content).val, LAMBDA payload :
    CASE Classified(msg) = "widget" ->
            /\ Item(widget, "component") = Item(payload, "component")
            /\ Item(widget, "data") = Item(payload, "data")
      [] Classified(msg) = "rows" ->
            /\ Item(widget, "component") = JStr("Table")
            /\ Item(Item(widget, "data"), "columns")
                  = Strings(Item(payload, "data").items[1].keys)
            /\ Len(Item(Item(widget, "data"), "rows").items)
                  = Len(Item(payload, "data").items)
      [] Classified(msg) = "bars" ->
            /\ Item(widget, "component") = JStr("BarChart")
            /\ Item(Item(widget, "data"), "labels").t = "list"
      [] Classified(msg) = "details" ->
            /\ Item(widget, "component") = JStr("Table")
            /\ Item(Item(widget, "data"), "columns") = Strings(<<"Property", "Value">>)
            /\ Len(Item(Item(widget, "data"), "rows").items)
                  = Len(Item(payload, "data").keys)
      [] OTHER -> FALSE)

\* C18: FORMAT goes through all the tool messages, whatever they hold, and
\* its widget list holds, in the order of the messages, one widget for every
\* message that classifies as a widget, a table, a bar chart or a property
\* table, and nothing for the others.
C18_Classification ==
    (pc \in {"end", "returned"})
    => /\ failure # "format"
       /\ Len(Emitted) = Len(WidgetSources)
       /\ \A k \in 1..Len(Emitted) :
             WidgetOf(Emitted[k], state_messages[WidgetSources[k]])


----------------------------------------------------------------------------
(* The final response of format_output_node, over sequences of assistant
   messages with and without tool calls among other messages *)

FinalInputs ==
    {AIMessage("Two pets are sold.", <<>>), AIMessage("Here is the chart.", <<>>),
     AIMessage("Let me look.", <<SearchPets>>), HumanMessage(UserText("A")),
     ToolContent(Dumps(BarsPayload))}

FinalInit == FormatEntry(FinalInputs)

SpecFinal == FinalInit /\ [][FormatNext]_vars

\* Whether the i-th message is an assistant message that asks for no tool.
IsAnswer(i) == state_messages[i].type = "ai" /\ state_messages[i].tool_calls = <<>>

\* C19: the final response FORMAT produces is the content of the assistant
\* message without tool calls after which the sequence holds no other such
\* message, and the fallback sentence when the sequence holds none.
C19_FinalResponse ==
    (pc = "end")
    => /\ \A i \in 1..Len(state_messages) :
             (IsAnswer(i) /\ \A j \in (i + 1)..Len(state_messages) : ~IsAnswer(j))
                => state_final_response = state_messages[i].text
       /\ (\A i \in 1..Len(state_messages) : ~IsAnswer(i))
             => state_final_response = "Here's what I found for you."

C19_Witness ==
    /\ pc = "end" /\ Len(state_messages) = 4
    /\ IsAnswer(1) /\ IsAnswer(2) /\ state_messages[1].text # state_messages[2].text
    /\ state_messages[3].type = "ai" /\ state_messages[3].tool_calls # <<>>
    /\ state_messages[4].type = "tool"
    /\ state_final_response = state_messages[2].text


----------------------------------------------------------------------------
(* Invocations whose tools give widgets, for two sessions, over a store that
   may become unreachable between two steps *)

TurnsNext ==
    \/ Lifespan(1, TRUE, TRUE, TRUE, TRUE)
    \/ \E session_id \in Sessions, k \in 0..1 :
          StartQuery(session_id, UserText(session_id), Scripted(k))
    \/ \E llm_ok \in BOOLEAN : Reason(<<FormatBars>>, llm_ok)
    \/ ToolExec(1, HttpResponse(404, "Pet not found", <<>>), TRUE)
    \/ Format
    \/ Done
    \/ StoreDown
    \/ StoreUp

SpecTurns == CacheInit /\ [][TurnsNext]_vars

\* The newest entry of a history.
Newest(history) == history.items[Len(history.items)]

\* C20: the step from the end of the graph to the return, when it succeeds,
\* leaves get_history of the session as it was (cut to make room) with one
\* more turn at its end, whose user text is the submitted message and whose
\* assistant text and widgets are the pair returned; it leaves the history
\* of the other sessions alone; FORMAT has run before it; and no step of the
\* invocation before it changes any history.
C20_TurnPersistence ==
    [][/\ (pc = "end" /\ pc' = "returned" /\ failure' = "")
             => /\ get_history(session)'.items # <<>>
                /\ SubSeq(get_history(session)'.items, 1,
                          Len(get_history(session)'.items) - 1)
                      = LastN(get_history(session).items, HistoryLimit - 1)
                /\ Item(Newest(get_history(session))', "user") = JStr(question)
                /\ Item(Newest(get_history(session))', "assistant") = JStr(result'.message)
                /\ Item(Newest(get_history(session))', "widgets") = result'.widgets
                /\ result'.message = state_final_response
                /\ result'.widgets = state_widgets
                /\ \A sid \in Sessions \ {session} : get_history(sid)' = get_history(sid)
                /\ trace[Len(trace)] = "format"
       /\ (pc \in {"agent", "tools", "format"} /\ redis_up' = redis_up)
             => \A sid \in Sessions : get_history(sid)' = get_history(sid)]_vars

C20_Witness ==
    /\ pc = "returned" /\ failure = "" /\ result.widgets # JList(<<>>)
    /\ Len(get_history(session).items) = 2
    /\ Item(Newest(get_history(session)), "widgets") = result.widgets
    /\ Item(Newest(get_history(session)), "assistant") = JStr(result.message)
    /\ get_history("B") # get_history("A")


----------------------------------------------------------------------------
(* Invocations that fail or are abandoned *)

\* An abandonment that would save the turn on its way out.
CancelSaving ==
    /\ pc \in {"agent", "tools", "format", "end"}
    /\ \E w \in {add_turn(session, question, state_final_response, state_widgets)} :
          /\ store' = w.store
          /\ memory_cache' = w.memory_cache
    /\ pc' = "raised"
    /\ failure' = "cancelled"
    /\ UNCHANGED <<cache_made, connected, redis_up, clock, ghostVars, regVars, session,
                   question, llm, state_messages, outputs, state_widgets,
                   state_final_response, result, uuid, trace, invocations>>

\* The caller goes away while process_query is suspended in
\* `await agent_graph.ainvoke(...)`: the CancelledError is raised there, it is
\* no Exception, and process_query is left through no handler.
Cancel ==
    /\ pc \in {"agent", "tools", "format", "end"}
    /\ pc' = "raised"
    /\ failure' = "cancelled"
    /\ UNCHANGED <<cacheVars, clock, ghostVars, regVars, session, question, llm,
                   state_messages, outputs, state_widgets, state_final_response, result,
                   uuid, trace, invocations>>

AbandonNext ==
    \/ TurnsNext
    \/ Cancel

SpecAbandon == CacheInit /\ [][AbandonNext]_vars

\* The records that hold the histories, in the store and in the process.
HistoryRecords ==
    [sid \in Sessions |->
        [stored |-> IF history_key(sid) \in DOMAIN store
                    THEN store[history_key(sid)].text ELSE <<>>,
         kept |-> IF history_key(sid) \in DOMAIN memory_cache
                  THEN <<memory_cache[history_key(sid)].value>> ELSE <<>>]]

\* C21: a step that ends an invocation with the error response, or abandons
\* it, writes no history record, and neither does any step before the
\* successful return: the records of the histories change only in the step
\* that returns a result, so no turn of a failed or abandoned invocation is
\* in any history, then or later.
C21_NoWriteOnFailure ==
    [][/\ (pc' # pc /\ (pc' = "raised" \/ (pc' = "returned" /\ failure' # "")))
             => HistoryRecords' = HistoryRecords
       /\ HistoryRecords' # HistoryRecords
             => (pc = "end" /\ pc' = "returned" /\ failure' = "")]_vars

C21_Witness ==
    /\ pc = "raised" /\ failure = "cancelled" /\ invocations = 2
    /\ \E i \in 1..Len(state_messages) : state_messages[i].type = "tool"
    /\ Len(get_history(session).items) = 1
    /\ Len(log[session]) = 1


----------------------------------------------------------------------------
(* _extract_endpoints on its own: it is applied to every document whose
   paths, the first MaxPaths of PathNames, each hold a selection of the keys
   of PathKeys *)

MaxPaths == 2

PathNames == <<"/pet", "/pet/{petId}", "/user/{name}">>

\* Under a path: a shared parameters block, operations, and a method name in
\* upper case.
PathKeys == <<"parameters", "get", "GET", "post", "delete">>

PathItem(keys) ==
    JObj(keys,
         [j \in 1..Len(keys) |->
             IF keys[j] = "parameters"
             THEN JList(<<Obj(<<<<"name", JStr("id")>>, <<"in", JStr("path")>>>>)>>)
             ELSE Obj(<<<<"summary", JStr(keys[j] \o " of the path")>>>>)])

Selections == {SelectSeq(PathKeys, LAMBDA k : k \in chosen) : chosen \in SUBSET {PathKeys[j] : j \in 1..Len(PathKeys)}}

ExtractInputs ==
    {Obj(<<<<"host", JStr("a.io")>>,
           <<"paths", JObj(SubSeq(PathNames, 1, MaxPaths),
                           [i \in 1..MaxPaths |-> PathItem(choice[i])])>>>>) :
        choice \in [1..MaxPaths -> Selections]}


ExtractInit ==
    /\ cache_made = FALSE /\ connected = FALSE /\ redis_up = TRUE
    /\ store = EmptyDict /\ memory_cache = EmptyDict
    /\ clock = 0 /\ lastOp = NoOp /\ steps = 0 /\ outages = 0 /\ steady = TRUE
    /\ log = [sid \in Sessions |-> <<>>]
    /\ collection = [exists |-> TRUE, entries |-> <<>>]
    /\ endpoints_cache = EmptyDict
    /\ parser = [made |-> FALSE, base_url |-> ""]
    /\ loads = <<>>
    /\ regOp \in {[op |-> "document", spec |-> spec] : spec \in ExtractInputs}
    /\ AgentIdle

\* SwaggerParser._extract_endpoints on the document fetched.
ExtractEndpoints ==
    /\ regOp.op = "document"
    /\ regOp' = [op |-> "extract", spec |-> regOp.spec,
                 endpoints |-> extract_endpoints(regOp.spec)]
    /\ UNCHANGED <<agentVars, cacheVars, clock, ghostVars, collection, endpoints_cache,
                   parser, loads>>

ExtractNext == ExtractEndpoints

SpecExtract == ExtractInit /\ [][ExtractNext]_vars

\* The (path, verb) pairs of a document, as places in its paths, and the id
\* the statement gives a pair.
VerbPairs(spec) ==
    {pair \in (1..Len(Item(spec, "paths").keys)) \X {"get", "post", "put", "delete", "patch"} :
        HasKey(Item(spec, "paths").vals[pair[1]], pair[2])}

VerbText(verb) ==
    CASE verb = "get" -> "GET" [] verb = "post" -> "POST" [] verb = "put" -> "PUT"
      [] verb = "delete" -> "DELETE" [] verb = "patch" -> "PATCH"

PairId(spec, pair) == VerbText(pair[2]) \o "_" \o Item(spec, "paths").keys[pair[1]]

C23_FailedStartupLeavesEmpty ==
    (Len(loads) = 1 /\ ~loads[1].ok)
    => /\ \A query \in Queries, top_k \in TopKs :
             /\ ~search(query, top_k).exc
             /\ search(query, top_k).found = <<>>
       /\ \A endpoint_id \in AllIds : ~get_details(endpoint_id).found


----------------------------------------------------------------------------
(* format_for_widget on its own: it is applied to every combination of the
   data, widget types and configurations below *)

WidgetData ==
    {Obj(<<<<"a", JNum(1)>>, <<"b", JNum(2)>>>>),
     Obj(<<<<"name", JStr("rex")>>, <<"sold", JNum(1)>>>>),
     Obj(<<<<"total_count", JNum(5)>>>>),
     Obj(<<<<"items", JList(<<Obj(<<<<"id", JNum(1)>>>>)>>)>>>>),
     JObj(<<>>, <<>>),
     JList(<<>>),
     JList(<<Obj(<<<<"day", JStr("mon")>>, <<"sold", JNum(1)>>>>),
             Obj(<<<<"day", JStr("tue")>>, <<"sold", JNum(4)>>>>)>>),
     JList(<<Obj(<<<<"name", JStr("rex")>>>>)>>),
     JList(<<Obj(<<<<"id", JNum(1)>>>>), JNum(5)>>),
     JList(<<JNum(1), JNum(2)>>),
     JStr("text"),
     JNull}

WidgetTypes == {"Table", "BarChart", "PieChart", "LineChart", "MetricCard", "Gauge"}

WidgetConfigs ==
    {JObj(<<>>, <<>>), Obj(<<<<"title", JStr("Pets")>>>>),
     Obj(<<<<"value_key", JStr("sold")>>>>), Obj(<<<<"value_key", JNum(1)>>>>)}

WidgetInit ==
    /\ cache_made = FALSE /\ connected = FALSE /\ redis_up = TRUE
    /\ store = EmptyDict /\ memory_cache = EmptyDict
    /\ clock = 0 /\ steps = 0 /\ outages = 0 /\ steady = TRUE
    /\ lastOp \in {[op |-> "input", data |-> data, widget_type |-> widget_type,
                    config |-> config] :
                      data \in WidgetData, widget_type \in WidgetTypes,
                      config \in WidgetConfigs}
    /\ log = [sid \in Sessions |-> <<>>]
    /\ RegistryIdle
    /\ AgentIdle

\* One call of the format_for_widget tool.
FormatForWidget ==
    /\ lastOp.op = "input"
    /\ \E r \in {format_for_widget(lastOp.data, lastOp.widget_type, lastOp.config)} :
          lastOp' = [op |-> "format_for_widget", data |-> lastOp.data,
                     widget_type |-> lastOp.widget_type, config |-> lastOp.config,
                     exc |-> r.exc, value |-> r.value]
    /\ UNCHANGED <<cacheVars, clock, steps, outages, steady, log, regVars, agentVars>>

WidgetNext == FormatForWidget

SpecWidget == WidgetInit /\ [][WidgetNext]_vars

IsWidgetShape(value) ==
    value.t = "obj" /\ value.keys = <<"component", "data", "config">>

\* C24: format_for_widget never raises; it returns an object with component,
\* data and config or an object with an error field; and, whatever the
\* config, an empty list for Table, a list for BarChart or MetricCard, an
\* empty object for MetricCard, a list without a numeric field for LineChart
\* and an unknown widget type give the error form.
C24_FormatterIsTotal ==
    (lastOp.op = "format_for_widget")
    => /\ ~lastOp.exc
       /\ IsWidgetShape(lastOp.value) \/ IsErrorResult(lastOp.value)
       /\ ~(IsWidgetShape(lastOp.value) /\ IsErrorResult(lastOp.value))
       /\ (lastOp.widget_type = "Table" /\ lastOp.data = JList(<<>>))
             => IsErrorResult(lastOp.value)
       /\ (lastOp.widget_type \in {"BarChart", "MetricCard"} /\ lastOp.data.t = "list")
             => IsErrorResult(lastOp.value)
       /\ (lastOp.widget_type = "MetricCard" /\ lastOp.data = JObj(<<>>, <<>>))
             => IsErrorResult(lastOp.value)
       /\ (lastOp.widget_type = "LineChart" /\ lastOp.data.t = "list"
             /\ \A i \in 1..Len(lastOp.data.items) :
                   lastOp.data.items[i].t = "obj"
                      => \A j \in 1..Len(lastOp.data.items[i].vals) :
                            ~IsNumber(lastOp.data.items[i].vals[j]))
             => IsErrorResult(lastOp.value)
       /\ lastOp.widget_type = "Gauge" => IsErrorResult(lastOp.value)


\* C25: format_for_widget with BarChart on an object whose values are all
\* numbers returns component BarChart with the keys as labels and the values
\* in the same order; on an object with a value that is no number, BarChart
\* and PieChart return no chart.
C25_BarDispatch ==
    (lastOp.op = "format_for_widget" /\ lastOp.data.t = "obj"
        /\ ~HasKey(lastOp.data, "items") /\ ~HasKey(lastOp.data, "data"))
    => /\ (lastOp.widget_type = "BarChart"
             /\ \A i \in 1..Len(lastOp.data.vals) : lastOp.data.vals[i].t = "num")
             => /\ Item(lastOp.value, "component") = JStr("BarChart")
                /\ Item(lastOp.value, "data")
                      = Obj(<<<<"labels", Strings(lastOp.data.keys)>>,
                              <<"values", JList(lastOp.data.vals)>>>>)
       /\ (lastOp.widget_type \in {"BarChart", "PieChart"}
             /\ \E i \in 1..Len(lastOp.data.vals) : ~IsNumber(lastOp.data.vals[i]))
             => ~IsWidgetShape(lastOp.value)


----------------------------------------------------------------------------
(* Callers of the cache taking turns: every operation runs to its end before
   the next one starts, in any order *)

\* C26: a set or a delete on one key leaves what get returns for every other
\* key as it was, and after a set get of its key returns the value set; so
\* sets on different keys, in any order, leave each key with its own value,
\* and of two sets on one key the later one is read.
C26_KeyGranularity ==
    [][\A k \in CacheKeys :
          (steps' # steps /\ lastOp'.op \in {"set", "delete"} /\ lastOp'.key = k)
          => /\ \A x \in CacheKeys \ {k} : get(x)' = get(x)
             /\ lastOp'.op = "set" => get(k)' = lastOp'.val]_vars

C26_Witness ==
    /\ lastOp.op = "set" /\ steps = 3
    /\ \E x \in CacheKeys \ {lastOp.key} :
          /\ get(x) # JNull /\ get(x) # lastOp.val
    /\ get(lastOp.key) = lastOp.val
    /\ connected /\ redis_up


----------------------------------------------------------------------------
(* The routing of the graph *)

\* C27: a REASON step that completes goes to TOOL_EXEC exactly when the last
\* message of the sequence asks for a tool, and to FORMAT otherwise; a
\* TOOL_EXEC round that completes goes to REASON; FORMAT is entered from
\* REASON only and left to the end of the graph only, after which the
\* invocation returns; and FORMAT is passed at most once in an invocation.
C27_Routing ==
    [][/\ (pc = "agent" /\ pc' # "agent" /\ failure' = "")
             => pc' = (IF state_messages'[Len(state_messages')].tool_calls # <<>>
                       THEN "tools" ELSE "format")
       /\ (pc = "tools" /\ pc' # "tools" /\ failure' = "") => pc' = "agent"
       /\ (pc = "format" /\ pc' # "format" /\ failure' = "") => pc' = "end"
       /\ (pc = "end" /\ pc' # "end") => pc' = "returned"
       /\ (pc' = "format" /\ pc # "format") => pc = "agent"
       /\ (pc' = "tools" /\ pc # "tools") => pc = "agent"
       /\ Cardinality({i \in 1..Len(trace') : trace'[i] = "format"}) <= 1]_vars

C27_Witness ==
    /\ pc = "end" /\ failure = ""
    /\ trace = <<"agent", "tools", "agent", "format">>
    /\ state_messages[Len(state_messages)].tool_calls = <<>>
    /\ \E i \in 1..Len(state_messages) : state_messages[i].tool_calls # <<>>


----------------------------------------------------------------------------
(* Rounds of tool calls, over a registry whose load may have failed *)

\* The calls of a reasoning step: a search and an API call, or a name that
\* is no tool.
RoundBatches == {<<SearchPets, CallPetById>>, <<NoSuchTool>>}

\* A load whose get_or_create_collection raised leaves the registry on a
\* deleted collection, and search raises; the tool node answers an exception
\* of a tool with an error message or lets it through.
RoundNext ==
    \/ \E create_ok \in BOOLEAN : Lifespan(1, TRUE, TRUE, create_ok, TRUE)
    \/ \E k \in 0..MaxRounds : StartQuery("A", UserText("A"), Scripted(k))
    \/ \E tool_calls \in RoundBatches, llm_ok \in BOOLEAN : Reason(tool_calls, llm_ok)
    \/ \E i \in 1..2, handled \in BOOLEAN :
          ToolExec(i, HttpResponse(404, "Pet not found", <<>>), handled)
    \/ Format
    \/ Done

SpecRound == CacheInit /\ [][RoundNext]_vars

\* The calls the last assistant message asks for.
Requested == state_messages[Len(state_messages)].tool_calls

\* The messages a step appended.
Appended == SubSeq(state_messages', Len(state_messages) + 1, Len(state_messages'))

\* The round that ends appended one tool message per requested call, in the
\* order of the calls.
RoundAppended ==
    /\ Len(state_messages') = Len(state_messages) + Len(Requested)
    /\ SubSeq(state_messages', 1, Len(state_messages)) = state_messages
    /\ \A i \in 1..Len(Requested) :
          /\ Appended[i].type = "tool"
          /\ Appended[i].tool_call_id = Requested[i].id
          /\ Appended[i].name = Requested[i].name

\* C28: a round of tool calls that follows an assistant message asking for n
\* calls is left only for the next reasoning step, with exactly n tool
\* messages appended, one per call and in the order of the calls; no message
\* is appended while the round runs; a call that fails (a name that is no
\* tool, an error answer of the API, a tool that raises) still has its message.
C28_ToolRound ==
    [][pc = "tools" =>
          /\ pc' \in {"tools", "agent"}
          /\ pc' = "tools" => state_messages' = state_messages
          /\ pc' = "agent" => RoundAppended]_vars


----------------------------------------------------------------------------
(* Invocations of sessions that have a past *)

MaxPast == 4        \* turns that earlier invocations saved

\* What the user asked and what was answered in the turn saved at time n.
PastUser(session_id, n) == "question " \o ToString(n) \o " of " \o session_id
PastAssistant(session_id, n) == "answer " \o ToString(n) \o " to " \o session_id

\* The widgets of the turn saved at time n: every second turn has one.
PastWidgets(n) ==
    IF n % 2 = 0 THEN JList(<<>>)
    ELSE JList(<<Obj(<<<<"component", JStr("Table")>>, <<"data", JList(<<>>)>>>>)>>)

\* An invocation before the ones that are followed, reduced to the turn it
\* saved (process_query, line 58): each has its own texts, with or without
\* widgets.
EarlierTurn(session_id) ==
    /\ cache_made /\ pc = "idle" /\ clock < MaxPast
    /\ \E r \in {add_turn(session_id, PastUser(session_id, clock),
                            PastAssistant(session_id, clock), PastWidgets(clock))} :
        /\ store' = r.store
        /\ memory_cache' = r.memory_cache
        /\ lastOp' = [NoOp EXCEPT !.op = "add_turn", !.key = history_key(session_id),
                                  !.exc = r.exc, !.mode = Mode, !.before = Histories]
    /\ clock' = clock + 1
    /\ log' = [log EXCEPT ![session_id] =
                  Append(@, Turn(PastUser(session_id, clock),
                                 PastAssistant(session_id, clock), PastWidgets(clock)))]
    /\ UNCHANGED <<cache_made, connected, redis_up, steps, outages, steady, regVars, agentVars>>

ContextNext ==
    \/ Lifespan(1, TRUE, TRUE, TRUE, TRUE)
    \/ \E session_id \in Sessions : EarlierTurn(session_id)
    \/ \E session_id \in Sessions, k \in 0..1 :
          StartQuery(session_id, UserText(session_id), Scripted(k))
    \/ \E llm_ok \in BOOLEAN : Reason(<<FormatBars>>, llm_ok)
    \/ ToolExec(1, HttpResponse(404, "Pet not found", <<>>), TRUE)
    \/ Format
    \/ Done

SpecContext == CacheInit /\ [][ContextNext]_vars

\* The turns of the session whose invocation starts, and how many of them
\* are rehydrated.
Remembered == log[session']
Rehydrated == IF Len(Remembered) < 3 THEN Len(Remembered) ELSE 3

\* C29: the invocation of a session whose history holds h turns starts its
\* first reasoning step on exactly: the system prompt, then for each of the
\* last min(h, 3) turns, oldest first, its user text as a user message and
\* its assistant text as an assistant message (no tool call, no tool
\* message, no widget), then the new user message: 2 + 2 * min(h, 3)
\* messages.
C29_InitialMessages ==
    [][invocations' # invocations =>
          /\ pc' = "agent"
          /\ Len(state_messages') = 2 + 2 * Rehydrated
          /\ state_messages'[1] = SystemMessage(SYSTEM_PROMPT)
          /\ \A j \in 1..Rehydrated :
                \E turn \in {Remembered[Len(Remembered) - Rehydrated + j]} :
                   /\ state_messages'[2 * j] = HumanMessage(Item(turn, "user").s)
                   /\ state_messages'[2 * j + 1] = AIMessage(Item(turn, "assistant").s, <<>>)
          /\ state_messages'[2 + 2 * Rehydrated] = HumanMessage(question')]_vars

\* An invocation that started on a history of four turns, some with widgets:
\* the oldest turn is left out and the three others are there, oldest first.
C29_Witness ==
    /\ pc = "agent" /\ trace = <<>> /\ session = "A"
    /\ Len(log["A"]) = 4 /\ Len(state_messages) = 8
    /\ \E i \in 2..4 : Truthy(Item(log["A"][i], "widgets"))
    /\ state_messages[2].text = PastUser("A", 1)
    /\ state_messages[7].text = PastAssistant("A", 3)
    /\ \A i \in 1..8 : state_messages[i].type \in {"system", "human", "ai"}


\* C30: within an invocation the message sequence only grows at its end:
\* after every step of agent, tools and format the sequence before the step
\* is a prefix of the sequence after it (no message removed, moved or
\* changed), and the step of format leaves the sequence as it is.
C30_AppendOnly ==
    [][(pc = "agent" \/ pc = "tools" \/ pc = "format") =>
          /\ IsPrefix(state_messages, state_messages')
          /\ pc = "format" => state_messages' = state_messages]_vars

\* An invocation after its formatting step: the question, the assistant
\* message asking for two calls, their two tool messages and the answer are
\* all there, in the order they were added.
C30_Witness ==
    /\ pc = "end" /\ Len(state_messages) = 6
    /\ state_messages[1].type = "system" /\ state_messages[2].type = "human"
    /\ state_messages[3].type = "ai" /\ Len(state_messages[3].tool_calls) = 2
    /\ state_messages[4].type = "tool" /\ state_messages[5].type = "tool"
    /\ state_messages[6].type = "ai" /\ state_messages[6].tool_calls = <<>>


\* The tool messages of the invocation.
ToolMessages == {i \in 1..Len(state_messages) : state_messages[i].type = "tool"}

\* The fields the formatting stage writes.
Written == <<state_widgets, state_final_response>>

\* C31: the widget list and the final response are written once, by the
\* formatting stage only: they are empty in every state of an invocation
\* before that stage has run, no step of agent or tools changes them, no
\* step after the formatting stage changes them, the formatting stage
\* writes the text of the answer and the widgets of the tool messages, and
\* what the invocation returns is what that stage wrote.
C31_WrittenOnce ==
    [][/\ (pc' = "agent" \/ pc' = "tools" \/ pc' = "format")
             => (state_widgets' = JList(<<>>) /\ state_final_response' = "")
       /\ (pc = "agent" \/ pc = "tools") => Written' = Written
       /\ (Written' # Written /\ invocations' = invocations)
             => (pc = "format" /\ pc' = "end")
       /\ (pc = "format" /\ pc' = "end")
             => /\ state_final_response' = state_messages[Len(state_messages)].text
                /\ state_final_response' # ""
                /\ Len(state_widgets'.items) = Cardinality(ToolMessages)
       /\ (pc = "end" /\ pc' = "returned" /\ failure' = "")
             => /\ Written' = Written
                /\ result' = [message |-> state_final_response, widgets |-> state_widgets]]_vars

\* An invocation that returned what its formatting stage wrote: an answer
\* and one widget.
C31_Witness ==
    /\ pc = "returned" /\ failure = "" /\ trace = <<"agent", "tools", "agent", "format", "end">>
    /\ Len(state_widgets.items) = 1 /\ result.widgets = state_widgets
    /\ result.message = state_final_response /\ state_final_response # ""


\* The grid cells a widget occupies.
Cells(widget) ==
    {<<r, c>> : r \in Pos(widget, "row")..(Pos(widget, "row") + Pos(widget, "height") - 1),
                c \in Pos(widget, "column")..(Pos(widget, "column") + Pos(widget, "width") - 1)}

\* C32: whatever the tool messages (widgets of width 6, bar charts of width
\* 6, tables of width 12), no two widgets the formatting stage emits have a
\* grid cell in common.
C32_NoOverlap ==
    (pc = "end")
    => \A k \in 1..Len(Emitted), l \in 1..Len(Emitted) :
          k < l => Cells(Emitted[k]) \cap Cells(Emitted[l]) = {}


----------------------------------------------------------------------------
(* Calls of call_api that differ only in where a parameter is given *)

\* The same name and value as a query parameter and as a path parameter, a
\* name in both maps, and the path parameter alone.
KeyCalls ==
    {ApiCall("GET_/pet", <<>>, <<<<"status", JStr("sold")>>>>),
     ApiCall("GET_/pet", <<<<"status", JStr("sold")>>>>, <<>>),
     ApiCall("GET_/pet/{petId}", <<<<"petId", JNum(1)>>>>, <<<<"petId", JNum(2)>>>>),
     ApiCall("GET_/pet/{petId}", <<<<"petId", JNum(2)>>>>, <<>>)}

KeyResponses ==
    {HttpResponse(404, "Pet not found", RawText("Pet not found")),
     HttpResponse(200, "", Dumps(JList(<<Obj(<<<<"id", JNum(1)>>>>)>>))),
     HttpResponse(200, "", Dumps(JList(<<Obj(<<<<"id", JNum(2)>>>>)>>)))}

KeysNext ==
    \/ Lifespan(1, TRUE, TRUE, TRUE, TRUE)
    \/ \E call \in KeyCalls, response \in KeyResponses : CallApi(call, response)

SpecKeys == CacheInit /\ [][KeysNext]_vars

\* C33: two calls of call_api that differ in the endpoint id, in the path
\* parameters or in the query parameters do not share a cache record: of
\* the first two calls of a process, the second is answered from the cache
\* only when it is the same call as the first, which fetched the payload.
C33_KeysSeparateCalls ==
    (steps = 2 /\ lastOp.op = "call_api" /\ lastOp.prev.op = "call_api"
        /\ IsCachedResult(lastOp.value))
    => /\ lastOp.prev.call = lastOp.call
       /\ IsFreshResult(lastOp.prev.value)


\* C34: with the backing store connected at startup, whatever requests fail
\* and whatever records expire, get(key) returns nothing or the value of the
\* most recent set(key) not followed by a delete(key).  Seen from the
\* operation that was the last one on the cache: after a set(key, v), and
\* until the next operation, get(key) is v or nothing, never an older value;
\* after a delete(key), and until the next operation, get(key) is nothing.
C34_NoStaleReads ==
    [][\A x \in CacheKeys :
          (connected /\ lastOp.key = x /\ steps' = steps)
          => /\ lastOp.op = "set" => get(x)' \in {JNull, lastOp.val}
             /\ lastOp.op = "delete" => get(x)' = JNull]_vars


\* C35: in every state of the registry every id a search returns is found by
\* get_details, with a full URL made of the base URL of a document that
\* holds that id and of the path of the endpoint.
C35_IndexMatchesDetails ==
    \A query \in Queries, top_k \in TopKs :
       \A id \in FoundIds(query, top_k) :
          /\ get_details(id).found
          /\ \E d \in 1..Len(Documents) :
                /\ id \in IdsOf(d)
                /\ get_details(id).full_url
                      = base_url_of(Documents[d]) \o get_details(id).path


\* C36: whenever format_for_widget returns an object with component, data
\* and config, its component is the widget type that was asked for.
C36_KindHonoured ==
    (lastOp.op = "format_for_widget" /\ IsWidgetShape(lastOp.value))
    => Item(lastOp.value, "component") = JStr(lastOp.widget_type)


\* The place of the new user message: the messages before it are the ones
\* rehydrated from earlier turns.
Asked == CHOOSE i \in 1..Len(state_messages) :
            /\ state_messages[i].type = "human"
            /\ \A j \in (i + 1)..Len(state_messages) : state_messages[j].type # "human"

\* C37: when the formatting stage runs, the last message of the sequence is
\* an assistant message without tool calls that comes after the new user
\* message (the answer of the last reasoning step of this invocation); the
\* final response is its text: not the text of an assistant message of an
\* earlier turn, and not the fallback sentence.
C37_FinalIsCurrent ==
    [][(pc = "format" /\ pc' = "end") =>
          /\ state_messages[Len(state_messages)].type = "ai"
          /\ state_messages[Len(state_messages)].tool_calls = <<>>
          /\ Asked < Len(state_messages)
          /\ trace[Len(trace)] = "agent"
          /\ state_final_response' = state_messages[Len(state_messages)].text
          /\ state_final_response' # "Here's what I found for you."
          /\ \A i \in 1..(Asked - 1) :
                (/\ state_messages[i].type = "ai"
                 /\ state_messages[i].text \in {PastAssistant(sid, n) :
                                                   sid \in Sessions, n \in 0..MaxPast})
                => state_final_response' # state_messages[i].text]_vars

\* An invocation of a session with three rehydrated turns, after a round of
\* tools and its formatting stage: the final response is the answer given
\* after the tool message, none of the three rehydrated answers.
C37_Witness ==
    /\ pc = "end" /\ Len(state_messages) = 11
    /\ state_messages[8].type = "human"
    /\ state_messages[9].tool_calls # <<>> /\ state_messages[10].type = "tool"
    /\ state_final_response = state_messages[11].text
    /\ \A i \in {3, 5, 7} : /\ state_messages[i].type = "ai"
                            /\ state_messages[i].text # state_final_response

====
